---- MODULE Spec2Model ----
(***************************************************************************)
(* A model of STLL's paragraph layouter (src/src/layoutParagraph.cpp):     *)
(* the normalised view, the run creator, the line assembler addLine with   *)
(* mergeLinks, the greedy breaker breakLines and the optimizing breaker    *)
(* breakLinesOptimize.                                                     *)
(*                                                                         *)
(* Indices are the source's 0-based indices; At(s, i) reads element i of   *)
(* a vector modelled as a TLA+ sequence.  Lengths are in layout units.     *)
(***************************************************************************)
EXTENDS Integers, Sequences, FiniteSets, TLC

VARIABLES
  pc,         \* position of the program
  t,          \* LayoutDataView constructor: the original string
  vi,         \* LayoutDataView constructor: loop index i
  txt32,      \* LayoutDataView::txt32
  idx,        \* LayoutDataView::idx
  linebreaks, \* LayoutDataView::linebreaks
  attr,       \* the attributes of the view positions: hasatt and att(i).lang
  hyphens,    \* LayoutDataView::hyphens
  sectionstart, \* getHyphens: start of the next language section
  pieces,     \* createTextRuns: the text of each run and what the shaper returns
  hb,         \* history: shaper buffers and shaper fonts created and destroyed
  written,    \* history: for each view position, the end of the window of
              \* the analyser call that wrote its line-break class last
  prop,       \* LayoutProperties_c: align, indent, optimizeLinebreaks
  shape,      \* the Shape_c the paragraph is laid out in
  ystart,     \* the ystart argument
  runs,       \* std::vector<runInfo> runs
  l,          \* TextLayout_c l, the result under construction
  runstart,   \* breakLines: first run of the next line; getLinebreaks: runstart
  ypos,       \* breakLines: top of the next line
  firstline,  \* breakLines: no line has been added yet
  li,         \* breakLinesOptimize: std::vector<lineinfo> li
  i,          \* breakLinesOptimize: the outer loop index
  erased,     \* history: number of runs erased from the front of runs
  oob,        \* history: a run index outside [0, runs.size()) was read
  lines       \* history: one record per addLine call, in call order

viewVars == <<t, vi, txt32, idx, linebreaks, attr, hyphens, sectionstart, pieces, hb, written>>
paraVars == <<prop, shape, ystart, runs, l, runstart, ypos, firstline, li, i, erased, oob, lines>>
vars == <<pc, t, vi, txt32, idx, linebreaks, attr, hyphens, sectionstart,
          pieces, hb, written, prop, shape, ystart, runs, l, runstart, ypos, firstline, li,
          i, erased, oob, lines>>

----------------------------------------------------------------------------
(* Generic helpers *)

At(s, k) == s[k + 1]

Max(a, b) == IF a >= b THEN a ELSE b

Min(a, b) == IF a <= b THEN a ELSE b

Abs(a) == IF a >= 0 THEN a ELSE -a

\* C++ integer division and double-to-int conversion: truncation toward zero
TruncDiv(a, b) == IF a >= 0 THEN a \div b ELSE -((-a) \div b)

\* F applied to the value v: binds a value that is used several times
With(v, F(_)) == F(v)

Reverse(s) == [k \in 1..Len(s) |-> s[Len(s) + 1 - k]]

RECURSIVE SumSeq(_)
SumSeq(s) == IF s = <<>> THEN 0 ELSE Head(s) + SumSeq(Tail(s))

\* all sequences over S of length 0..n
SeqsUpTo(S, n) == UNION {[1..k -> S] : k \in 0..n}

----------------------------------------------------------------------------
(* Codepoints *)

LRE == 8234

RLE == 8235

PDF == 8236

SHY == 173

SPACE == 32

NEWLINE == 10

LETTER == 97

\* bound: longest original string of the view specification
MaxLen == 4

Codepoints == {LETTER, SPACE, SHY, LRE, RLE, PDF}

----------------------------------------------------------------------------
(* LayoutDataView *)

\* mutant of isBidiCharacter: U+202C is not recognised
isBidiCharacter_noPDF(c) == c = LRE \/ c = RLE

isBidiCharacter(c) == c = LRE \/ c = RLE \/ c = PDF

\* the state every variable of the paragraph part has while the view is built
ParaIdle ==
  /\ prop = [align |-> "ALG_LEFT", indent |-> 0, optimizeLinebreaks |-> FALSE]
  /\ shape = [l0 |-> 0, r0 |-> 0, ystep |-> 0, l1 |-> 0, r1 |-> 0]
  /\ ystart = 0
  /\ runs = <<>>
  /\ l = [cmds |-> <<>>, links |-> <<>>, firstBaseline |-> 0, height |-> 0]
  /\ runstart = 0
  /\ ypos = 0
  /\ firstline = TRUE
  /\ li = <<>>
  /\ i = 0
  /\ erased = 0
  /\ oob = FALSE
  /\ lines = <<>>

\* no hb_buffer_create, hb_buffer_destroy, hb_ft_font_create or
\* hb_font_destroy has been called
NoHandles ==
  [bufCreated |-> 0, bufDestroyed |-> 0, fontCreated |-> 0, fontDestroyed |-> 0]

\* the state of the variables of the analysis passes while they do not run
PrepIdle ==
  /\ attr = <<>>
  /\ hyphens = <<>>
  /\ sectionstart = 0
  /\ pieces = <<>>
  /\ hb = NoHandles
  /\ written = <<>>

\* entry of the constructor: members default-constructed, loop index 0
InitView ==
  /\ pc = "view"
  /\ t \in SeqsUpTo(Codepoints, MaxLen)
  /\ vi = 0
  /\ txt32 = <<>>
  /\ idx = <<>>
  /\ linebreaks = <<>>
  /\ PrepIdle
  /\ ParaIdle

\* one iteration of the copy loop
ViewCopy ==
  /\ pc = "view"
  /\ vi < Len(t)
  /\ IF ~isBidiCharacter(At(t, vi))
       THEN /\ txt32' = Append(txt32, At(t, vi))
            /\ idx' = Append(idx, vi)
       ELSE UNCHANGED <<txt32, idx>>
  /\ vi' = vi + 1
  /\ UNCHANGED <<pc, t, linebreaks, attr, hyphens, sectionstart, pieces, hb, written>>
  /\ UNCHANGED paraVars

\* loop exit: linebreaks.resize(idx.size()), the constructor returns
ViewResize ==
  /\ pc = "view"
  /\ ~(vi < Len(t))
  /\ linebreaks' = [k \in 1..Len(idx) |-> 0]
  /\ pc' = "viewdone"
  /\ UNCHANGED <<t, vi, txt32, idx, attr, hyphens, sectionstart, pieces, hb, written>>
  /\ UNCHANGED paraVars

NextView == ViewCopy \/ ViewResize

SpecView == InitView /\ [][NextView]_vars

\* C1: once the view is constructed, idx is strictly increasing, every idx
\* entry is below the original length, the view's codepoint at k is the
\* original codepoint at idx[k], and an original position is missing from
\* idx exactly when its codepoint is U+202A, U+202B or U+202C.
C1_IndexMap ==
  pc = "viewdone" =>
    /\ Len(txt32) = Len(idx)
    /\ Len(linebreaks) = Len(idx)
    /\ \A k \in 0..(Len(idx) - 1) :
         /\ At(idx, k) < Len(t)
         /\ At(txt32, k) = At(t, At(idx, k))
         /\ (k > 0 => At(idx, k - 1) < At(idx, k))
    /\ \A p \in 0..(Len(t) - 1) :
         (\A k \in 0..(Len(idx) - 1) : At(idx, k) # p)
           <=> At(t, p) \in {LRE, RLE, PDF}

\* C1 witness: a constructed view that kept two codepoints around a
\* skipped U+202C
C1_Witness ==
  /\ pc = "viewdone"
  /\ Len(idx) >= 2
  /\ \E p \in 1..(Len(t) - 2) :
       /\ At(t, p) = PDF
       /\ \E k \in 1..(Len(idx) - 1) : At(idx, k - 1) < p /\ p < At(idx, k)

----------------------------------------------------------------------------
(* Runs: runInfo and createRun *)

LINEBREAK_MUSTBREAK == 0

LINEBREAK_ALLOWBREAK == 1

LINEBREAK_NOBREAK == 2

\* LayoutProperties_c::links, the URL of link id k is PropLinks[k]; two ids
\* may name the same URL
PropLinks == <<"urlA", "urlB", "urlA">>

\* width added to an underline so that adjacent underlines join
UnderlinePad == 64

\* First pass of createRun over the glyphs: absolute offsets, run.dx and the
\* link rectangles.  g is the glyph list the shaper returned, each glyph with
\* its x_advance (adv), and the link id (link) of its cluster's attribute.
\* st = [dx, curLink, linkStart, linkRect, links, xoff]
RECURSIVE LinkPass(_, _, _, _, _)
LinkPass(g, j, asc, desc, st) ==
  IF j >= Len(g) THEN st
  ELSE
    LET a == At(g, j)
        linkStart1 == IF (st.curLink = 0 /\ a.link # 0) \/ (st.curLink # a.link)
                        THEN st.dx ELSE st.linkStart
        dx1 == st.dx + a.adv
        closing == a.link # 0 /\ st.curLink # 0 /\ st.curLink # a.link
        links1 == IF closing
                    THEN Append(st.links, [url |-> PropLinks[st.curLink],
                                           areas |-> <<st.linkRect>>])
                    ELSE st.links
        curLink1 == IF closing THEN 0 ELSE st.curLink
        rect1 == IF a.link = 0 THEN st.linkRect
                 ELSE IF curLink1 = 0
                   THEN [x |-> linkStart1, y |-> -asc, w |-> dx1 - linkStart1,
                         h |-> asc - desc]
                   ELSE [st.linkRect EXCEPT !.w = dx1 - linkStart1]
        curLink2 == IF a.link # 0 /\ curLink1 = 0 THEN a.link ELSE curLink1
    IN LinkPass(g, j + 1, asc, desc,
                [dx |-> dx1, curLink |-> curLink2, linkStart |-> linkStart1,
                 linkRect |-> rect1, links |-> links1,
                 xoff |-> Append(st.xoff, st.dx)])

\* addUnderline: the shadows of the underline, then the underline itself
addUnderline(gx, gw, nshadows, ul, gl) ==
  IF ul
    THEN [k \in 1..nshadows |->
            [layer |-> nshadows - (k - 1), command |-> "CMD_RECT", x |-> gx,
             y |-> 0, w |-> gw, glyph |-> gl, shadow |-> TRUE]]
         \o <<[layer |-> 0, command |-> "CMD_RECT", x |-> gx, y |-> 0, w |-> gw,
               glyph |-> gl, shadow |-> FALSE]>>
    ELSE <<>>

\* Second pass of createRun: the drawing commands of glyph j, its shadows
\* first (layer shadows.size()-k), then the glyph on layer 0, then its underline
GlyphCommands(g, xoff, j, nshadows) ==
  [k \in 1..nshadows |->
     [layer |-> nshadows - (k - 1), command |-> "CMD_GLYPH", x |-> At(xoff, j),
      y |-> 0, w |-> 0, glyph |-> j, shadow |-> TRUE]]
  \o <<[layer |-> 0, command |-> "CMD_GLYPH", x |-> At(xoff, j), y |-> 0, w |-> 0,
        glyph |-> j, shadow |-> FALSE]>>
  \o addUnderline(At(xoff, j), At(g, j).adv + UnderlinePad, nshadows, At(g, j).ul, j)

\* the output loop of createRun: logical order, so glyphs are visited from
\* the back when the embedding level is odd
RECURSIVE CommandPass(_, _, _, _, _)
CommandPass(g, xoff, jj, emb, nshadows) ==
  IF jj >= Len(g) THEN <<>>
  ELSE LET j == IF emb % 2 # 0 THEN Len(g) - 1 - jj ELSE jj
       IN GlyphCommands(g, xoff, j, nshadows)
            \o CommandPass(g, xoff, jj + 1, emb, nshadows)

\* createRun for a run described by d: the shaper's glyphs (glyphs), the
\* embedding level of view position runstart (emb), the line-break class of
\* position spos-1 (lnb), the space and shy tests, the font's ascender and
\* descender and the number of shadows of the attribute at runstart
createRun(d) ==
  LET fin == LinkPass(d.glyphs, 0, d.asc, d.desc,
                      [dx |-> 0, curLink |-> 0, linkStart |-> 0,
                       linkRect |-> [x |-> 0, y |-> 0, w |-> 0, h |-> 0],
                       links |-> <<>>, xoff |-> <<>>])
  IN [run |-> CommandPass(d.glyphs, fin.xoff, 0, d.emb, d.shadows),
      dx |-> fin.dx,
      embeddingLevel |-> d.emb,
      linebreak |-> d.lnb,
      space |-> d.space,
      shy |-> d.shy,
      ascender |-> d.asc,
      descender |-> d.desc,
      links |-> IF fin.curLink # 0
                  THEN Append(fin.links, [url |-> PropLinks[fin.curLink],
                                          areas |-> <<fin.linkRect>>])
                  ELSE fin.links]

----------------------------------------------------------------------------
(* Shape_c: a column whose edges change once, at height ystep *)

\* rows [top, bottom) lie in the upper part, the lower part, or both
ShapeLeft(sh, top, bottom) ==
  IF bottom <= sh.ystep THEN sh.l0
  ELSE IF top >= sh.ystep THEN sh.l1
  ELSE Max(sh.l0, sh.l1)

ShapeRight(sh, top, bottom) ==
  IF bottom <= sh.ystep THEN sh.r0
  ELSE IF top >= sh.ystep THEN sh.r1
  ELSE Min(sh.r0, sh.r1)


----------------------------------------------------------------------------
(* mergeLinks and addLine *)

LF_FIRST == 1

LF_LAST == 2

LF_SMALL_SPACE == 4

\* lineflags & f
HasFlag(lineflags, f) == (lineflags \div f) % 2 = 1

\* mutant of FindLink: the URL is never found
FindLink_notFound(tl, url, k) == Len(tl)

\* the first index of an entry of tl with this URL, Len(tl) if there is none
\* (std::find_if)
RECURSIVE FindLink(_, _, _)
FindLink(tl, url, k) ==
  IF k >= Len(tl) THEN Len(tl)
  ELSE IF At(tl, k).url = url THEN k
  ELSE FindLink(tl, url, k + 1)

ShiftRect(r, dx, dy) == [r EXCEPT !.x = r.x + dx, !.y = r.y + dy]

\* mutant of mergeLinks: only the first link of the run is merged
mergeLinks_firstOnly(tl, links, dx, dy) ==
  IF links = <<>> THEN tl
  ELSE
    With(Head(links), LAMBDA lk :
    With(FindLink(tl, lk.url, 0), LAMBDA found :
    With(IF found = Len(tl) THEN Append(tl, [url |-> lk.url, areas |-> <<>>])
                            ELSE tl, LAMBDA tl1 :
      [tl1 EXCEPT ![found + 1].areas =
         @ \o [k \in 1..Len(lk.areas) |-> ShiftRect(lk.areas[k], dx, dy)]])))

\* mergeLinks: tl is txt.links, the result is the new txt.links
RECURSIVE mergeLinks(_, _, _, _)
mergeLinks(tl, links, dx, dy) ==
  IF links = <<>> THEN tl
  ELSE
    With(Head(links), LAMBDA lk :
    With(FindLink(tl, lk.url, 0), LAMBDA found :
    With(IF found = Len(tl) THEN Append(tl, [url |-> lk.url, areas |-> <<>>])
                            ELSE tl, LAMBDA tl1 :
      mergeLinks([tl1 EXCEPT ![found + 1].areas =
                    @ \o [k \in 1..Len(lk.areas) |-> ShiftRect(lk.areas[k], dx, dy)]],
                 Tail(links), dx, dy))))

\* the end k of the region of runs above level lv that starts at j
RECURSIVE RegionEnd(_, _, _, _)
RegionEnd(rs, runorder, k, lv) ==
  IF k < Len(runorder) /\ At(rs, At(runorder, k)).embeddingLevel > lv
    THEN RegionEnd(rs, runorder, k + 1, lv)
    ELSE k

\* std::reverse(runorder.begin()+j, runorder.begin()+k)
ReverseRange(runorder, j, k) ==
  [m \in 1..Len(runorder) |->
     IF j + 1 <= m /\ m <= k THEN runorder[j + k + 1 - m] ELSE runorder[m]]

\* after a region [j, k) is reversed the loop sets j = k and then increments j
NextRegion(k) == k + 1

\* the loop over j for one level lv
RECURSIVE ReorderLevel(_, _, _, _)
ReorderLevel(rs, runorder, j, lv) ==
  IF j >= Len(runorder) THEN runorder
  ELSE IF At(rs, At(runorder, j)).embeddingLevel > lv
    THEN With(RegionEnd(rs, runorder, j + 1, lv), LAMBDA k :
           ReorderLevel(rs, ReverseRange(runorder, j, k), NextRegion(k), lv))
    ELSE ReorderLevel(rs, runorder, j + 1, lv)

\* the loop over the levels, i = max_level-1 down to 0
RECURSIVE ReorderFrom(_, _, _)
ReorderFrom(rs, runorder, lv) ==
  IF lv < 0 THEN runorder
  ELSE ReorderFrom(rs, ReorderLevel(rs, runorder, 0, lv), lv - 1)

RECURSIVE MaxLevel(_, _, _)
MaxLevel(rs, runorder, k) ==
  IF k >= Len(runorder) THEN 0
  ELSE Max(At(rs, At(runorder, k)).embeddingLevel, MaxLevel(rs, runorder, k + 1))

\* mutant of RunOrder: only the regions above level 0 are reversed, once
RunOrder_oneLevel(rs, rstart, spos) ==
  With([k \in 1..(spos - rstart) |-> rstart + k - 1], LAMBDA iota :
    ReorderFrom(rs, iota, 0))

\* the visual order of the runs runstart..spos-1
RunOrder(rs, rstart, spos) ==
  With([k \in 1..(spos - rstart) |-> rstart + k - 1], LAMBDA iota :
    ReorderFrom(rs, iota, MaxLevel(rs, iota, 0) - 1))

\* spaceadder is the double sa.num / sa.den; base + spaceadder*n converted
\* to an integer
AddSpace(base, sa, n) == TruncDiv(base * sa.den + sa.num * n, sa.den)

\* mutant of LineStart: a justified line starts at the right
LineStart_flushRight(p, left, spaceLeft, lineflags, numSpace) ==
  [xpos |-> left + spaceLeft,
   sa |-> IF numSpace > 0 /\ ~HasFlag(lineflags, LF_LAST)
            THEN [num |-> spaceLeft, den |-> numSpace]
            ELSE [num |-> 0, den |-> 1]]

\* xpos and spaceadder of a line (the switch over prop.align)
LineStart(p, left, spaceLeft, lineflags, numSpace) ==
  LET justify == numSpace > 0 /\ ~HasFlag(lineflags, LF_LAST)
      indent == IF HasFlag(lineflags, LF_FIRST) THEN p.indent ELSE 0
      none == [num |-> 0, den |-> 1]
  IN CASE p.align = "ALG_RIGHT" ->
            [xpos |-> left + spaceLeft, sa |-> none]
       [] p.align = "ALG_CENTER" ->
            [xpos |-> left + TruncDiv(spaceLeft, 2), sa |-> none]
       [] p.align = "ALG_JUSTIFY_LEFT" ->
            [xpos |-> left + indent,
             sa |-> IF justify THEN [num |-> spaceLeft, den |-> numSpace] ELSE none]
       [] p.align = "ALG_JUSTIFY_RIGHT" ->
            IF justify
              THEN [xpos |-> left, sa |-> [num |-> spaceLeft, den |-> numSpace]]
              ELSE [xpos |-> left + spaceLeft, sa |-> none]
       [] OTHER ->
            [xpos |-> left + indent, sa |-> none]

\* mutant of ShyShown: soft hyphens are always output
ShyShown_always(r, ri, spos) == TRUE

\* soft hyphen runs are output only when they are the last run of the line
ShyShown(r, ri, spos) == ~r.shy \/ ri = spos - 1

\* the commands of run r after the placement loop visited it
PlaceCommands(r, sa, xpos2, numSpace, y) ==
  [k \in 1..Len(r.run) |->
     LET cc == r.run[k]
     IN IF ~r.space
          THEN [cc EXCEPT !.x = AddSpace(cc.x + xpos2, sa, numSpace), !.y = cc.y + y]
        ELSE IF cc.command = "CMD_RECT"
          THEN [cc EXCEPT !.w = AddSpace(cc.w, sa, 1),
                          !.x = AddSpace(cc.x + xpos2, sa, numSpace),
                          !.y = cc.y + y]
        ELSE cc]

\* the links of run r after the placement loop visited it
PlaceLinks(r, sa) ==
  IF r.space /\ r.links # <<>> /\ r.links[1].areas # <<>>
    THEN [r.links EXCEPT ![1].areas[1].w = AddSpace(@, sa, 1)]
    ELSE r.links

\* the placement loop of addLine over runorder from position k;
\* st = [runs, links, xpos2, numSpace, visits] with links the layout's link
\* list and visits the history of the runs placed: the run, the offset its
\* links were merged at, the links merged and the advance added to xpos2
RECURSIVE PlaceRuns(_, _, _, _, _, _, _)
PlaceRuns(runorder, k, spos, sa, y, lineflags, st) ==
  IF k >= Len(runorder) THEN st
  ELSE
    With(At(runorder, k), LAMBDA ri :
    With(At(st.runs, ri), LAMBDA r :
      IF ShyShown(r, ri, spos)
        THEN With([r EXCEPT !.run = PlaceCommands(r, sa, st.xpos2, st.numSpace, y),
                            !.links = PlaceLinks(r, sa)], LAMBDA r1 :
             With(IF r.space /\ HasFlag(lineflags, LF_SMALL_SPACE)
                    THEN TruncDiv(9 * r.dx, 10) ELSE r.dx, LAMBDA adv :
               PlaceRuns(runorder, k + 1, spos, sa, y, lineflags,
                 [runs |-> [st.runs EXCEPT ![ri + 1] = r1],
                  links |-> mergeLinks(st.links, r1.links,
                                       AddSpace(st.xpos2, sa, st.numSpace), y),
                  xpos2 |-> st.xpos2 + adv,
                  numSpace |-> IF r.space THEN st.numSpace + 1 ELSE st.numSpace,
                  visits |-> Append(st.visits,
                               [ri |-> ri, links |-> r1.links, adv |-> adv,
                                dx |-> AddSpace(st.xpos2, sa, st.numSpace)])])))
        ELSE PlaceRuns(runorder, k + 1, spos, sa, y, lineflags, st)))

\* maxlayer: one more than the largest layer of a command of the line's runs
RECURSIVE MaxLayer(_, _, _)
MaxLayer(rs, rstart, spos) ==
  IF rstart >= spos THEN 0
  ELSE Max(With(At(rs, rstart).run, LAMBDA cs :
                  IF cs = <<>> THEN 0
                  ELSE 1 + CHOOSE m \in {cs[k].layer : k \in 1..Len(cs)} :
                             \A k \in 1..Len(cs) : cs[k].layer <= m),
            MaxLayer(rs, rstart + 1, spos))

\* the commands of run ri that the output loop adds for one layer, each
\* tagged with its run
RunOutput(rs, ri, spos, layer) ==
  With(At(rs, ri), LAMBDA r :
    IF ShyShown(r, ri, spos)
      THEN SelectSeq([k \in 1..Len(r.run) |-> [ri |-> ri, c |-> r.run[k]]],
                     LAMBDA e : /\ e.c.layer = layer
                                /\ (r.space => e.c.command = "CMD_RECT"))
      ELSE <<>>)

\* the runs runstart..spos-1 in logical order for one layer
RECURSIVE LayerOutput(_, _, _, _)
LayerOutput(rs, ri, spos, layer) ==
  IF ri >= spos THEN <<>>
  ELSE RunOutput(rs, ri, spos, layer) \o LayerOutput(rs, ri + 1, spos, layer)

\* mutant of LayerAt: the layers are output from 0 upwards
LayerAt_ascending(maxlayer, layer) == layer

\* the layer output in iteration `layer` of the output loop
LayerAt(maxlayer, layer) == maxlayer - layer - 1

\* the output loop, layer = 0 .. maxlayer-1
RECURSIVE OutputFrom(_, _, _, _, _)
OutputFrom(rs, rstart, spos, maxlayer, layer) ==
  IF layer >= maxlayer THEN <<>>
  ELSE LayerOutput(rs, rstart, spos, LayerAt(maxlayer, layer))
         \o OutputFrom(rs, rstart, spos, maxlayer, layer + 1)

\* addLine.  The result holds the new runs and layout, and what the call
\* did (runorder, xpos, spaceadder, the final xpos2, the commands output)
addLine(rstart, spos, rs, lay, y, curWidth, left, right, lineflags, numSpace, p) ==
  With(RunOrder(rs, rstart, spos), LAMBDA runorder :
  With(LineStart(p, left, right - left - curWidth, lineflags, numSpace), LAMBDA start :
  With(PlaceRuns(runorder, 0, spos, start.sa, y, lineflags,
                 [runs |-> rs, links |-> lay.links, xpos2 |-> start.xpos,
                  numSpace |-> 0, visits |-> <<>>]), LAMBDA placed :
  With(OutputFrom(placed.runs, rstart, spos,
                  MaxLayer(placed.runs, rstart, spos), 0), LAMBDA out :
    [runs |-> placed.runs,
     l |-> [lay EXCEPT !.cmds = @ \o [k \in 1..Len(out) |-> out[k].c],
                       !.links = placed.links],
     runorder |-> runorder,
     spaceLeft |-> right - left - curWidth,
     xpos |-> start.xpos,
     sa |-> start.sa,
     xpos2 |-> placed.xpos2,
     spaces |-> placed.numSpace,
     visits |-> placed.visits,
     out |-> out]))))

\* the history record of an addLine call: its arguments, what it did (res)
\* and where the breaker stood; run indices are made absolute with off; para
\* is what breakLinesOptimize knew of the sub-paragraph of the line
LineRecord(breaker, off, rstart, spos, top, asc, desc, curWidth, left, right, lineflags, numSpace, groups, linksBefore, res, para) ==
  [breaker |-> breaker, runstart |-> off + rstart, spos |-> off + spos,
   top |-> top, ascend |-> asc, descend |-> desc, curWidth |-> curWidth,
   left |-> left, right |-> right, lineflags |-> lineflags,
   numSpace |-> numSpace, groups |-> groups,
   runorder |-> [k \in 1..Len(res.runorder) |-> off + res.runorder[k]],
   spaceLeft |-> res.spaceLeft, xpos |-> res.xpos, sa |-> res.sa,
   xpos2 |-> res.xpos2,
   visits |-> [k \in 1..Len(res.visits) |->
                 [res.visits[k] EXCEPT !.ri = off + res.visits[k].ri]],
   out |-> [k \in 1..Len(res.out) |-> [res.out[k] EXCEPT !.ri = off + res.out[k].ri]],
   linksBefore |-> linksBefore, linksAfter |-> res.l.links, para |-> para,
   line |-> [k \in 1..(spos - rstart) |->
               [embeddingLevel |-> At(res.runs, rstart + k - 1).embeddingLevel,
                space |-> At(res.runs, rstart + k - 1).space,
                shy |-> At(res.runs, rstart + k - 1).shy,
                dx |-> At(res.runs, rstart + k - 1).dx]]]

----------------------------------------------------------------------------
(* breakLines, the greedy breaker *)

IsBreak(c) == c = LINEBREAK_ALLOWBREAK \/ c = LINEBREAK_MUSTBREAK

\* mutant of SkipSpaces: the first run is skipped whatever it is
SkipSpaces_anyRun(rs, k) == IF k < Len(rs) - 1 THEN k + 1 ELSE k

\* skip initial spaces
RECURSIVE SkipSpaces(_, _)
SkipSpaces(rs, k) ==
  IF k < Len(rs) /\ At(rs, k).space THEN SkipSpaces(rs, k + 1) ELSE k

\* the innermost loop: add runs from newspos on until the line can be
\* broken; a = [ascend, descend, width, space, newspos]
RECURSIVE ProbeGroup(_, _, _)
ProbeGroup(rs, newspos, a) ==
  IF newspos >= Len(rs) THEN [a EXCEPT !.newspos = newspos]
  ELSE
    With(At(rs, newspos), LAMBDA r :
    With([ascend |-> Max(a.ascend, r.ascender),
          descend |-> Min(a.descend, r.descender),
          width |-> a.width + r.dx,
          space |-> IF r.space THEN a.space + 1 ELSE a.space,
          newspos |-> newspos], LAMBDA a1 :
      IF \/ /\ newspos + 1 < Len(rs)
            /\ At(rs, newspos + 1).space
            /\ IsBreak(At(rs, newspos + 1).linebreak)
         \/ /\ ~r.space
            /\ IsBreak(r.linebreak)
        THEN a1
        ELSE ProbeGroup(rs, newspos + 1, a1)))

\* mutant of TakesOver: a group that overruns is never taken over
TakesOver_strict(rstart, spos, overruns) == ~overruns

\* a probed group is taken over unless it overruns and the line already
\* holds something
TakesOver(rstart, spos, overruns) == ~(spos > rstart /\ overruns)

\* mutant of ShyWidth: the width of a soft hyphen is never taken back
ShyWidth_kept(rs, rstart, spos) == 0

\* the width taken back when the line goes on after a soft hyphen
ShyWidth(rs, rstart, spos) ==
  IF spos > rstart /\ At(rs, spos - 1).shy THEN At(rs, spos - 1).dx ELSE 0

\* the line after the probed group new is taken over: the line is complete
\* (forcebreak), the text has run out behind the last run (ranoff), or the
\* loop goes on (more)
TakeOver(rs, rstart, cur, new) ==
  With([ascend |-> new.ascend, descend |-> new.descend,
        width |-> new.width - ShyWidth(rs, rstart, cur.spos),
        spos |-> new.newspos + 1, numSpace |-> new.space,
        forcebreak |-> FALSE, groups |-> cur.groups + 1,
        ranoff |-> FALSE, more |-> FALSE], LAMBDA cur1 :
    IF cur1.spos > Len(rs)
      \* runs[spos-1] would be read behind the last run
      THEN [cur1 EXCEPT !.ranoff = TRUE]
    ELSE IF \/ At(rs, cur1.spos - 1).linebreak = LINEBREAK_MUSTBREAK
            \/ /\ cur1.spos < Len(rs)
               /\ At(rs, cur1.spos).space
               /\ At(rs, cur1.spos).linebreak = LINEBREAK_MUSTBREAK
      THEN [cur1 EXCEPT !.forcebreak = TRUE]
    ELSE [cur1 EXCEPT !.more = TRUE])

\* mutant of Overruns: the shape is asked at the top of the line only
Overruns_atTop(sh, y, bottom, width) ==
  ShapeLeft(sh, y, y) + width > ShapeRight(sh, y, y)

\* does a line of this width and these extents, placed at y, overrun the shape
Overruns(sh, y, bottom, width) ==
  ShapeLeft(sh, y, bottom) + width > ShapeRight(sh, y, bottom)

\* the loop `while (spos < runs.size())` of one line;
\* cur = [ascend, descend, width, spos, numSpace, forcebreak, groups, ranoff, more]
RECURSIVE FillLine(_, _, _, _, _)
FillLine(rs, rstart, y, sh, cur) ==
  IF cur.spos >= Len(rs) THEN cur
  ELSE
    With(ProbeGroup(rs, cur.spos,
           [ascend |-> cur.ascend, descend |-> cur.descend,
            width |-> cur.width, space |-> cur.numSpace,
            newspos |-> cur.spos]), LAMBDA new :
      IF ~TakesOver(rstart, cur.spos,
                    Overruns(sh, y, y + new.ascend - new.descend, new.width))
        THEN cur
        ELSE With(TakeOver(rs, rstart, cur, new), LAMBDA cur1 :
               IF cur1.more THEN FillLine(rs, rstart, y, sh, cur1) ELSE cur1))

\* the call of addLine for the filled line, and what the iteration leaves
\* behind
BreakLinesAdd(rstart, line, bottom, left, right, lineflags) ==
  With(addLine(rstart, line.spos, runs, l, ypos + line.ascend, line.width,
               left, right, lineflags, line.numSpace, prop), LAMBDA res :
    [pc |-> pc, oob |-> oob,
     runs |-> res.runs,
     l |-> IF firstline
             THEN [res.l EXCEPT !.firstBaseline = ypos + line.ascend]
             ELSE res.l,
     ypos |-> bottom,
     runstart |-> line.spos,
     firstline |-> FALSE,
     lines |-> Append(lines,
       LineRecord("breakLines", 0, rstart, line.spos, ypos,
                  line.ascend, line.descend, line.width, left,
                  right, lineflags, line.numSpace, line.groups,
                  l.links, res, <<>>))])

\* the body of the outer loop: one line is filled and added
BreakLinesBody ==
  With(SkipSpaces(runs, runstart), LAMBDA rstart :
  With(FillLine(runs, rstart, ypos, shape,
         [ascend |-> 0, descend |-> 0,
          width |-> IF firstline /\ prop.align # "ALG_CENTER"
                      THEN prop.indent ELSE 0,
          spos |-> rstart, numSpace |-> 0, forcebreak |-> FALSE,
          groups |-> 0, ranoff |-> FALSE, more |-> FALSE]), LAMBDA line :
    IF line.ranoff
      THEN [pc |-> "undefined", oob |-> TRUE, runs |-> runs, l |-> l,
            ypos |-> ypos, runstart |-> runstart, firstline |-> firstline,
            lines |-> lines]
      ELSE With(ypos + line.ascend - line.descend, LAMBDA bottom :
             BreakLinesAdd(rstart, line, bottom,
               ShapeLeft(shape, ypos, bottom), ShapeRight(shape, ypos, bottom),
               (IF firstline THEN LF_FIRST ELSE 0)
                 + (IF line.forcebreak \/ line.spos = Len(runs)
                      THEN LF_LAST ELSE 0)))))

\* one iteration of the outer loop
BreakLinesLine ==
  /\ pc = "greedy"
  /\ runstart < Len(runs)
  /\ \E r \in {BreakLinesBody} :
       /\ pc' = r.pc
       /\ oob' = r.oob
       /\ runs' = r.runs
       /\ l' = r.l
       /\ ypos' = r.ypos
       /\ runstart' = r.runstart
       /\ firstline' = r.firstline
       /\ lines' = r.lines
  /\ UNCHANGED <<prop, shape, ystart, li, i, erased>>
  /\ UNCHANGED viewVars

\* the outer loop is left: the height is set and the layout returned
BreakLinesReturn ==
  /\ pc = "greedy"
  /\ ~(runstart < Len(runs))
  /\ l' = [l EXCEPT !.height = ypos]
  /\ pc' = "done"
  /\ UNCHANGED <<prop, shape, ystart, runs, runstart, ypos, firstline, li, i,
                 erased, oob, lines>>
  /\ UNCHANGED viewVars


----------------------------------------------------------------------------
(* breakLinesOptimize, the optimizing breaker *)

\* std::numeric_limits<int>::max(), the demerits of an unreachable position
IntMax == 2147483647

\* a value-initialised lineinfo
ZeroLineinfo ==
  [from |-> 0, demerits |-> 0, ascend |-> 0, descend |-> 0, width |-> 0,
   spaces |-> 0, ypos |-> 0, forcebreak |-> FALSE, linetype |-> 0,
   hypen |-> FALSE, start |-> FALSE]

\* what a read of a runInfo outside the vector can give: a soft hyphen flag
\* that is clear or set, or a memory fault
Garbage == {"notshy", "shy", "fault"}

\* `while (runs[s1].space) s1++`: the scan stops at the first run that is no
\* space; behind the last run it reads outside the vector (out)
RECURSIVE ScanUp(_, _)
ScanUp(rs, s1) ==
  IF s1 >= Len(rs) THEN [s |-> s1, out |-> TRUE]
  ELSE IF At(rs, s1).space THEN ScanUp(rs, s1 + 1)
  ELSE [s |-> s1, out |-> FALSE]

\* `while (runs[s2-1].space) s2--`: before the first run it reads outside
\* the vector (out)
RECURSIVE ScanDown(_, _)
ScanDown(rs, s2) ==
  IF s2 - 1 < 0 THEN [s |-> s2, out |-> TRUE]
  ELSE IF At(rs, s2 - 1).space THEN ScanDown(rs, s2 - 1)
  ELSE [s |-> s2, out |-> FALSE]

\* runs[s2-1].shy, g when the index is outside the vector
ShyAt(rs, k, g) == IF 0 <= k /\ k < Len(rs) THEN At(rs, k).shy ELSE g = "shy"

\* mutant of CountsInLine: soft hyphens always count
CountsInLine_always(r, j, s2) == TRUE

\* a run counts for the measures of a line unless it is a soft hyphen
\* inside the line
CountsInLine(r, j, s2) == ~r.shy \/ j = s2 - 1

\* the loop over the runs s1..s2-1 of a candidate line;
\* m = [Ascend, Descend, Width, Space, spaceWidth]
RECURSIVE Measure(_, _, _, _)
Measure(rs, j, s2, m) ==
  IF j >= s2 THEN m
  ELSE
    With(At(rs, j), LAMBDA r :
      Measure(rs, j + 1, s2,
        IF ~CountsInLine(r, j, s2) THEN m
        ELSE [Ascend |-> Max(m.Ascend, r.ascender),
              Descend |-> Min(m.Descend, r.descender),
              Width |-> m.Width + (IF r.space THEN TruncDiv(r.dx * 9, 10)
                                             ELSE r.dx),
              Space |-> IF r.space THEN m.Space + 1 ELSE m.Space,
              spaceWidth |-> IF r.space THEN m.spaceWidth + r.dx
                                        ELSE m.spaceWidth]))

Cube(x) == x * x * x

\* linetype of a line: d = fillinDifference, o = optimalFillin; badness is
\* 100*(d/o)^3, infinite for o = 0 < d and not a number for o = 0 = d
Linetype(d, o, fillin) ==
  IF o = 0 THEN (IF d > 0 THEN 3 ELSE 1)
  ELSE IF o > 0 /\ d >= o THEN 3
  ELSE IF o > 0 /\ 100 * Cube(d) >= 13 * Cube(o)
    THEN (IF fillin > o THEN 2 ELSE 0)
  ELSE 1

\* badness = 100*(d/o)^3 for o # 0 (d >= 0), rounded toward zero to an integer
Badness(d, o) ==
  IF o > 0 THEN (100 * Cube(d)) \div Cube(o)
  ELSE -((100 * Cube(d)) \div Cube(-o))

\* a sum of demerits; the float demerits are kept exactly below INT_MAX, and
\* every value from INT_MAX on is IntMax: a candidate line is recorded only
\* when its demerits are below the INT_MAX that li[i].demerits starts from
SatAdd(a, b) == IF a >= IntMax - b THEN IntMax ELSE a + b

\* (10+badness)*(10+badness)
BaseDemerits(d, o) ==
  With(10 + Badness(d, o), LAMBDA b : IF Abs(b) > 46340 THEN IntMax ELSE b * b)

\* the demerits added for a hyphen after a hyphen and for a change of linetype
Penalty(prev, linetype, shyEnd) ==
  (IF shyEnd /\ prev.hypen THEN 10000 ELSE 0)
    + (IF Abs(linetype - prev.linetype) > 1 THEN 10000 ELSE 0)
    + (IF linetype # prev.linetype THEN 5000 ELSE 0)

\* the demerits of a candidate line and the lineinfo it would leave;
\* d = fillinDifference, o = optimalFillin
LineCost(prev, from, m, bottom, left, right, d, o, linetype, forced, shyEnd, out) ==
  [toolong |-> left + m.Width > right,
   out |-> out,
   finite |-> forced \/ o # 0,
   demerits |-> IF forced
                  THEN SatAdd(IF m.Width > TruncDiv(right - left, 3) THEN 0 ELSE 100000,
                              prev.demerits)
                ELSE IF o # 0
                  THEN SatAdd(SatAdd(BaseDemerits(d, o),
                                     Penalty(prev, linetype, shyEnd)),
                              prev.demerits)
                ELSE 0,
   info |-> [from |-> from, demerits |-> 0, ascend |-> m.Ascend,
             descend |-> m.Descend, width |-> m.Width, spaces |-> m.Space,
             ypos |-> bottom, forcebreak |-> forced, linetype |-> linetype,
             hypen |-> shyEnd, start |-> FALSE]]

\* fillin, optimalFillin, fillinDifference and the linetype of a candidate
LineFill(prev, from, m, bottom, left, right, forced, shyEnd, out) ==
  With(right - left - m.Width, LAMBDA fillin :
  With(m.spaceWidth - m.Width, LAMBDA o :
  With(Abs(fillin - o), LAMBDA d :
    LineCost(prev, from, m, bottom, left, right, d, o,
             Linetype(d, o, fillin), forced, shyEnd, out))))

\* the body of the loop over start for one start: the candidate line from
\* run start-1 up to position i, coming from li[start-1]
Candidate(rs, lis, start, ipos, p, sh, g) ==
  With(At(lis, start - 1), LAMBDA prev :
  With(ScanUp(rs, start - 1), LAMBDA up :
  With(ScanDown(rs, ipos), LAMBDA down :
  With(Measure(rs, up.s, down.s,
         [Ascend |-> 0, Descend |-> 0,
          Width |-> IF start = 1 /\ p.align # "ALG_CENTER" THEN p.indent ELSE 0,
          Space |-> 0, spaceWidth |-> 0]), LAMBDA m :
  With(prev.ypos + m.Ascend - m.Descend, LAMBDA bottom :
    LineFill(prev, start - 1, m, bottom,
             ShapeLeft(sh, prev.ypos, bottom), ShapeRight(sh, prev.ypos, bottom),
             At(rs, ipos - 1).linebreak = LINEBREAK_MUSTBREAK \/ ipos = Len(rs),
             ShyAt(rs, down.s - 1, g), up.out \/ down.out))))))

\* mutant of Improves: the last candidate looked at wins
Improves_always(demerits, best) == TRUE

\* `if (demerits < li[i].demerits)`
Improves(demerits, best) == demerits < best

\* the loop `for (start = i; start > 0; start--)`; the result is the new li
\* and whether a run outside the vector was read
RECURSIVE Starts(_, _, _, _, _, _, _, _)
Starts(rs, lis, start, ipos, p, sh, g, out) ==
  IF start <= 0 THEN [li |-> lis, out |-> out]
  ELSE IF At(lis, start - 1).demerits = IntMax
    THEN Starts(rs, lis, start - 1, ipos, p, sh, g, out)
  ELSE
    With(Candidate(rs, lis, start, ipos, p, sh, g), LAMBDA c :
      IF c.toolong THEN [li |-> lis, out |-> out \/ c.out]
      ELSE Starts(rs,
             IF c.finite /\ Improves(c.demerits, At(lis, ipos).demerits)
               THEN [lis EXCEPT ![ipos + 1] = [c.info EXCEPT !.demerits = c.demerits]]
               ELSE lis,
             start - 1, ipos, p, sh, g, out \/ c.out))

\* the break positions from position ii back to the start of the
\* sub-paragraph, the last break first
RECURSIVE Breaks(_, _)
Breaks(lis, ii) ==
  IF At(lis, ii).start THEN <<ii>>
  ELSE <<ii>> \o Breaks(lis, At(lis, ii).from)

\* the call of addLine for the line from break from to break to (bb is
\* li[to], cc is li[from]); st = [runs, l, li, lines, out, thrown, para]
EmitLine(from, bb, cc, s1, s2, bottom, left, right, lineflags, p, off, st) ==
  With(addLine(s1, s2, st.runs, st.l, cc.ypos + bb.ascend, bb.width, left,
               right, lineflags, bb.spaces, p), LAMBDA res :
    [runs |-> res.runs,
     l |-> IF HasFlag(lineflags, LF_FIRST)
             THEN [res.l EXCEPT !.firstBaseline = cc.ypos + bb.ascend]
             ELSE res.l,
     li |-> [st.li EXCEPT ![from + 1].ypos = bottom],
     lines |-> Append(st.lines,
       LineRecord("breakLinesOptimize", off, s1, s2, cc.ypos,
                  bb.ascend, bb.descend, bb.width, left, right,
                  lineflags, bb.spaces, 0, st.l.links, res, st.para)),
     out |-> st.out, thrown |-> FALSE, para |-> st.para])

\* the loop that adds the lines of a sub-paragraph, ii = breaks.size()-1
\* down to 1
RECURSIVE EmitLines(_, _, _, _, _, _)
EmitLines(breaks, ii, p, sh, off, st) ==
  IF ii <= 0 \/ st.thrown THEN st
  ELSE
    With(At(st.li, At(breaks, ii - 1)), LAMBDA bb :
    With(At(st.li, At(breaks, ii)), LAMBDA cc :
    With(ScanUp(st.runs, At(breaks, ii)), LAMBDA up :
    With(ScanDown(st.runs, At(breaks, ii - 1)), LAMBDA down :
      IF up.s > down.s
        \* std::vector<size_t> runorder(spos-runstart) throws
        THEN [st EXCEPT !.thrown = TRUE, !.out = @ \/ up.out \/ down.out]
        ELSE With(cc.ypos + bb.ascend - bb.descend, LAMBDA bottom :
               EmitLines(breaks, ii - 1, p, sh, off,
                 EmitLine(At(breaks, ii), bb, cc, up.s, down.s, bottom,
                          ShapeLeft(sh, cc.ypos, bottom),
                          ShapeRight(sh, cc.ypos, bottom),
                          (IF ii = Len(breaks) - 1 THEN LF_FIRST ELSE 0)
                            + (IF ii = 1 THEN LF_LAST ELSE 0) + LF_SMALL_SPACE,
                          p, off,
                          [st EXCEPT !.out = @ \/ up.out \/ down.out])))))))

\* what an iteration leaves behind when it ends at pc1 with the lineinfo
\* lis and nothing else changed
OptimizeKeep(pc1, lis, inext, out) ==
  [pc |-> pc1, oob |-> out, runs |-> runs, l |-> l, li |-> lis, i |-> inext,
   erased |-> erased, lines |-> lines]

\* for the history: the sub-paragraph that ends at position i, the break
\* positions chosen for it (the last first), li[0] and li[i], and the
\* number of runs erased before it
SubParagraph(lis, breaks) ==
  [sub |-> [k \in 1..i |->
              [dx |-> runs[k].dx, space |-> runs[k].space, shy |-> runs[k].shy,
               linebreak |-> runs[k].linebreak, ascender |-> runs[k].ascender,
               descender |-> runs[k].descender]],
   breaks |-> breaks, first |-> At(lis, 0), last |-> At(lis, i),
   off |-> erased]

\* the end of an iteration at a forced break or at the end of the text: the
\* lines of the sub-paragraph are added and its runs erased
OptimizeEmit(dp, breaks, g) ==
  With(EmitLines(breaks, Len(breaks) - 1, prop, shape, erased,
         [runs |-> runs, l |-> l, li |-> dp.li, lines |-> lines,
          out |-> dp.out, thrown |-> FALSE,
          para |-> SubParagraph(dp.li, breaks)]), LAMBDA em :
    IF em.out /\ g = "fault" THEN OptimizeKeep("crash", li, i, TRUE)
    ELSE IF em.thrown THEN OptimizeKeep("exception", li, i, oob \/ em.out)
    ELSE [pc |-> pc, oob |-> oob \/ em.out,
          runs |-> SubSeq(em.runs, i + 1, Len(em.runs)),
          l |-> em.l,
          li |-> [em.li EXCEPT ![1].ypos = At(em.li, i).ypos],
          i |-> 1,
          erased |-> erased + i,
          lines |-> em.lines])

\* the body of the outer loop over i: the best way to position i is found
\* and, at a forced break or the end, the sub-paragraph is output and its
\* runs are erased.  g is what a read outside the vector gives.
OptimizeBody(g) ==
  With(IF IsBreak(At(runs, i - 1).linebreak)
         THEN Starts(runs, [li EXCEPT ![i + 1].demerits = IntMax],
                     i, i, prop, shape, g, FALSE)
         ELSE [li |-> [li EXCEPT ![i + 1].demerits = IntMax],
               out |-> FALSE], LAMBDA dp :
    IF At(runs, i - 1).linebreak = LINEBREAK_MUSTBREAK \/ i = Len(runs)
      THEN OptimizeEmit(dp, Breaks(dp.li, i), g)
    ELSE IF dp.out /\ g = "fault" THEN OptimizeKeep("crash", li, i, TRUE)
    ELSE OptimizeKeep(pc, dp.li, i + 1, oob \/ dp.out))

\* one iteration of the outer loop over i
OptimizeStep ==
  /\ pc = "opt"
  /\ i < Len(runs) + 1
  /\ \E g \in (IF At(runs, 0).space \/ At(runs, Len(runs) - 1).space
                 THEN Garbage ELSE {"notshy"}) :
       \E r \in {OptimizeBody(g)} :
         /\ pc' = r.pc
         /\ oob' = r.oob
         /\ runs' = r.runs
         /\ l' = r.l
         /\ li' = r.li
         /\ i' = r.i
         /\ erased' = r.erased
         /\ lines' = r.lines
  /\ UNCHANGED <<prop, shape, ystart, runstart, ypos, firstline>>
  /\ UNCHANGED viewVars

\* the outer loop is left: the height is set and the layout returned
OptimizeReturn ==
  /\ pc = "opt"
  /\ ~(i < Len(runs) + 1)
  /\ l' = [l EXCEPT !.height = At(li, 0).ypos]
  /\ pc' = "done"
  /\ UNCHANGED <<prop, shape, ystart, runs, runstart, ypos, firstline, li, i,
                 erased, oob, lines>>
  /\ UNCHANGED viewVars


----------------------------------------------------------------------------
(* The paragraphs the breakers are run on *)

\* a glyph of the shaper: x_advance, the link and the underline flag of its
\* character's attribute; y_advance is 0
Glyph(adv, link, ul) == [adv |-> adv, link |-> link, ul |-> ul, yadv |-> 0]

\* a run of text: its glyphs, line-break class, embedding level, ascender
\* (the descender is -1) and number of shadows
TextRun(glyphs, lnb, emb, asc, shadows) ==
  createRun([glyphs |-> glyphs, emb |-> emb, lnb |-> lnb, space |-> FALSE,
             shy |-> FALSE, asc |-> asc, desc |-> -1, shadows |-> shadows])

\* the run of one U+0020 or U+000A
SpaceRun(g, lnb, emb, shadows) ==
  createRun([glyphs |-> <<g>>, emb |-> emb, lnb |-> lnb, space |-> TRUE,
             shy |-> FALSE, asc |-> 2, desc |-> -1, shadows |-> shadows])

\* the run of one U+00AD, shaped as a hyphen
ShyRun(g, lnb, emb, shadows) ==
  createRun([glyphs |-> <<g>>, emb |-> emb, lnb |-> lnb, space |-> FALSE,
             shy |-> TRUE, asc |-> 2, desc |-> -1, shadows |-> shadows])

\* a column with the same edges at every height
Column(left, right) == [l0 |-> left, r0 |-> right, ystep |-> 0, l1 |-> left, r1 |-> right]

\* the run lists: up to n-1 runs of Body and a last run of Final
RunLists(Body, Final, n) ==
  {b \o <<f>> : b \in SeqsUpTo(Body, n - 1), f \in Final}

\* the state on entry of breakLines or breakLinesOptimize, called by
\* layoutParagraph with the runs rs, in shape sh, with properties p
Entry(rs, sh, p) ==
  /\ pc = (IF p.optimizeLinebreaks THEN "opt" ELSE "greedy")
  /\ t = <<>>
  /\ vi = 0
  /\ txt32 = <<>>
  /\ idx = <<>>
  /\ linebreaks = <<>>
  /\ PrepIdle
  /\ prop = p
  /\ shape = sh
  /\ ystart = 0
  /\ runs = rs
  /\ l = [cmds |-> <<>>, links |-> <<>>, firstBaseline |-> 0, height |-> 0]
  /\ runstart = 0
  /\ ypos = 0
  /\ firstline = TRUE
  /\ li = IF p.optimizeLinebreaks
            THEN [k \in 1..(Len(rs) + 1) |->
                    IF k = 1 THEN [ZeroLineinfo EXCEPT !.start = TRUE]
                    ELSE ZeroLineinfo]
            ELSE <<>>
  /\ i = 1
  /\ erased = 0
  /\ oob = FALSE
  /\ lines = <<>>

Props(Aligns, Indents, Optimize) ==
  [align : Aligns, indent : Indents, optimizeLinebreaks : Optimize]

NextPara == BreakLinesLine \/ BreakLinesReturn \/ OptimizeStep \/ OptimizeReturn

NextGreedy == BreakLinesLine \/ BreakLinesReturn

NextOptimize == OptimizeStep \/ OptimizeReturn

----------------------------------------------------------------------------
(* Visual order: paragraphs of one-glyph words on embedding levels 0..3 *)

\* bound: most runs of a paragraph of the visual-order specification
MaxBidiRuns == 5

BidiBody == {TextRun(<<Glyph(2, 0, FALSE)>>, LINEBREAK_ALLOWBREAK, lv, 2, 0) : lv \in 0..3}

BidiFinal == {TextRun(<<Glyph(2, 0, FALSE)>>, LINEBREAK_MUSTBREAK, lv, 2, 0) : lv \in 0..3}

InitBidi ==
  \E rs \in RunLists(BidiBody, BidiFinal, MaxBidiRuns) :
    \E sh \in {Column(0, 4), Column(0, 10)} :
      \E p \in Props({"ALG_LEFT"}, {0}, BOOLEAN) :
        Entry(rs, sh, p)

SpecBidi == InitBidi /\ [][NextPara]_vars

\* the embedding level of run ri of the line rec
LevelOf(rec, ri) == rec.line[ri - rec.runstart + 1].embeddingLevel

\* rule L2 for one level lv: in the order s of the runs of rec, every maximal
\* sequence of runs of level lv or more is reversed.  The run at place k
\* of such a sequence from place a to place b comes from place a+b-k.
L2Level(rec, s, lv) ==
  [k \in 1..Len(s) |->
     IF LevelOf(rec, s[k]) < lv THEN s[k]
     ELSE LET a == CHOOSE a \in 1..k :
                     /\ \A j \in a..k : LevelOf(rec, s[j]) >= lv
                     /\ (a = 1 \/ LevelOf(rec, s[a - 1]) < lv)
              b == CHOOSE b \in k..Len(s) :
                     /\ \A j \in k..b : LevelOf(rec, s[j]) >= lv
                     /\ (b = Len(s) \/ LevelOf(rec, s[b + 1]) < lv)
          IN s[a + b - k]]

\* rule L2 from level lv down to level 1
RECURSIVE L2From(_, _, _)
L2From(rec, s, lv) ==
  IF lv < 1 THEN s ELSE L2From(rec, L2Level(rec, s, lv), lv - 1)

\* the logical order of the runs of the line rec
Logical(rec) == [k \in 1..(rec.spos - rec.runstart) |-> rec.runstart + k - 1]

\* the highest embedding level on the line rec, 0 on a line without runs
HighestLevel(rec) ==
  IF rec.line = <<>> THEN 0
  ELSE CHOOSE m \in {rec.line[k].embeddingLevel : k \in 1..Len(rec.line)} :
         \A k \in 1..Len(rec.line) : rec.line[k].embeddingLevel <= m

\* C2: the run order addLine computes for a line is a permutation of the
\* line's runs, and it is rule L2 applied to the runs: for each level from
\* the line's highest level down to 1, every maximal sequence of runs of at
\* least that level is reversed
C2_VisualOrder ==
  \A n \in 1..Len(lines) :
    /\ Len(lines[n].runorder) = lines[n].spos - lines[n].runstart
    /\ \A ri \in lines[n].runstart..(lines[n].spos - 1) :
         \E k \in 1..Len(lines[n].runorder) : lines[n].runorder[k] = ri
    /\ lines[n].runorder = L2From(lines[n], Logical(lines[n]), HighestLevel(lines[n]))

\* a line of five runs on three levels and more whose visual order is neither
\* the logical order nor its reverse
C2_Witness ==
  \E n \in 1..Len(lines) :
    /\ Len(lines[n].runorder) = 5
    /\ HighestLevel(lines[n]) = 3
    /\ \E k \in 1..5 : lines[n].line[k].embeddingLevel = 1
    /\ \E k \in 1..5 : lines[n].line[k].embeddingLevel = 2
    /\ lines[n].runorder # Logical(lines[n])
    /\ lines[n].runorder # Reverse(Logical(lines[n]))


----------------------------------------------------------------------------
(* Paragraphs of words, spaces, soft hyphens and newlines *)

\* a piece of text that becomes one run: its kind ("word", a word;
\* "hyphenated", a word a line may be broken behind; "space"; "shy";
\* "newline"), its advance, the ascender and descender of its font, its link
\* id (0: none), its underline flag and its number of shadows
Piece(kind, adv, asc, desc, link, ul, shadows) ==
  [kind |-> kind, adv |-> adv, asc |-> asc, desc |-> desc, link |-> link,
   ul |-> ul, shadows |-> shadows]

\* the line-break class getLinebreaks stores for the last character of
\* piece k: a break is forced at the end of the text and behind a newline,
\* there is none before a space, a newline or a soft hyphen, and one is
\* allowed behind a space, a soft hyphen and a hyphenated word
LinebreakAfter(ps, k) ==
  IF k = Len(ps) \/ ps[k].kind = "newline" THEN LINEBREAK_MUSTBREAK
  ELSE IF ps[k + 1].kind \in {"space", "newline", "shy"} THEN LINEBREAK_NOBREAK
  ELSE IF ps[k].kind \in {"space", "shy", "hyphenated"} THEN LINEBREAK_ALLOWBREAK
  ELSE LINEBREAK_NOBREAK

\* the glyphs of piece p, each with the link id of its character's
\* attribute: one glyph, or, for a "mixed" word, three glyphs of the links
\* 1, 2 and 3, or, for a "linked" word, one glyph for each link id of the
\* sequence p.link
PieceGlyphs(p) ==
  IF p.kind = "mixed"
    THEN <<Glyph(p.adv, 1, p.ul), Glyph(p.adv, 2, p.ul), Glyph(p.adv, 3, p.ul)>>
  ELSE IF p.kind = "linked"
    THEN [k \in 1..Len(p.link) |-> Glyph(p.adv, p.link[k], p.ul)]
    ELSE <<Glyph(p.adv, p.link, p.ul)>>

\* the runs createTextRuns makes of the pieces ps, one run a piece
PieceRuns(ps) ==
  [k \in 1..Len(ps) |->
     createRun([glyphs |-> PieceGlyphs(ps[k]),
                emb |-> 0,
                lnb |-> LinebreakAfter(ps, k),
                space |-> ps[k].kind \in {"space", "newline"},
                shy |-> ps[k].kind = "shy",
                asc |-> ps[k].asc, desc |-> ps[k].desc,
                shadows |-> ps[k].shadows])]

\* the paragraphs of 1..n pieces that start with a piece of First
Paragraphs(First, Rest, n) ==
  {PieceRuns(<<f>> \o r) : f \in First, r \in SeqsUpTo(Rest, n - 1)}

Word == Piece("word", 20, 20, -10, 0, FALSE, 0)

Blank == Piece("space", 10, 20, -10, 0, FALSE, 0)

SoftHyphen == Piece("shy", 10, 20, -10, 0, FALSE, 0)

----------------------------------------------------------------------------
(* Justified paragraphs with soft hyphens, under both breakers *)

\* bound: most runs of a justified paragraph
MaxJustifyRuns == 7

InitJustify ==
  \E rs \in Paragraphs({Word}, {Word, Blank, SoftHyphen}, MaxJustifyRuns) :
    \E p \in Props({"ALG_JUSTIFY_LEFT", "ALG_JUSTIFY_RIGHT"}, {0}, BOOLEAN) :
      Entry(rs, Column(0, 80), p)

SpecJustify == InitJustify /\ [][NextPara]_vars


\* the sum of the advances of the runs placed on the line rec
PlacedAdvance(rec) == SumSeq([k \in 1..Len(rec.visits) |-> rec.visits[k].adv])

\* the line rec is justified: it is not flagged LAST and holds a space run
IsJustified(rec) ==
  /\ prop.align \in {"ALG_JUSTIFY_LEFT", "ALG_JUSTIFY_RIGHT"}
  /\ ~HasFlag(rec.lineflags, LF_LAST)
  /\ \E k \in 1..Len(rec.line) : rec.line[k].space

\* the advances placed plus numSpace times spaceadder are right - left,
\* within one unit (spaceadder is sa.num / sa.den)
FillsColumn(rec) ==
  Abs(PlacedAdvance(rec) * rec.sa.den + rec.numSpace * rec.sa.num
        - (rec.right - rec.left) * rec.sa.den) <= rec.sa.den

\* C3: on every justified line of either breaker that is not flagged LAST
\* and holds a space run, the advances of the runs placed plus numSpace times
\* spaceadder equal right - left within one unit
C3_Justification ==
  \A n \in 1..Len(lines) : IsJustified(lines[n]) => FillsColumn(lines[n])


\* the commands of run ri among the commands the line rec appended to the
\* output
OutputOf(rec, ri) == SelectSeq(rec.out, LAMBDA e : e.ri = ri)

\* C4: the commands of a soft hyphen run reach the output if and only if the
\* run is the last run of its line: a soft hyphen inside a line is neither
\* placed nor output, and the soft hyphen a line ends with is placed and
\* gives exactly one glyph, the last command of the line
C4_SoftHyphen ==
  \A n \in 1..Len(lines) :
    \A k \in 1..Len(lines[n].line) :
      lines[n].line[k].shy =>
        IF k = Len(lines[n].line)
          THEN /\ Len(OutputOf(lines[n], lines[n].spos - 1)) = 1
               /\ lines[n].out[Len(lines[n].out)].ri = lines[n].spos - 1
               /\ lines[n].out[Len(lines[n].out)].c.command = "CMD_GLYPH"
               /\ \E v \in 1..Len(lines[n].visits) :
                    lines[n].visits[v].ri = lines[n].spos - 1
          ELSE /\ OutputOf(lines[n], lines[n].runstart + k - 1) = <<>>
               /\ \A v \in 1..Len(lines[n].visits) :
                    lines[n].visits[v].ri # lines[n].runstart + k - 1

\* the optimizing breaker has laid out a paragraph with a line that is broken
\* at a soft hyphen and a line with a soft hyphen inside
C4_Witness ==
  /\ pc = "done"
  /\ prop.optimizeLinebreaks
  /\ \E n \in 1..(Len(lines) - 1) :
       /\ lines[n].line # <<>>
       /\ lines[n].line[Len(lines[n].line)].shy
  /\ \E n \in 1..Len(lines) :
       \E k \in 1..(Len(lines[n].line) - 1) : lines[n].line[k].shy


----------------------------------------------------------------------------
(* The greedy breaker in narrow and stepped columns *)

\* bound: most runs of a paragraph of the greedy specification
MaxGreedyRuns == 4

TallWord == Piece("word", 20, 40, -10, 0, FALSE, 0)

\* a column that is 80 wide down to height 30 and 50 wide below
Stepped == [l0 |-> 0, r0 |-> 80, ystep |-> 30, l1 |-> 0, r1 |-> 50]

InitGreedy ==
  \E rs \in Paragraphs({Word, TallWord}, {Word, TallWord, Blank, SoftHyphen},
                       MaxGreedyRuns) :
    \E sh \in {Column(0, 5), Column(0, 50), Stepped} :
      \E p \in Props({"ALG_LEFT"}, {0}, {FALSE}) :
        Entry(rs, sh, p)

\* the loop of breakLines goes on: an iteration is taken whenever the loop
\* condition holds (weak fairness of BreakLinesLine, with its enabling
\* condition written out)
LoopGoesOn ==
  \/ []<>(~(pc = "greedy" /\ runstart < Len(runs)))
  \/ []<><<BreakLinesLine>>_vars

\* breakLines runs its loop until it returns
SpecGreedy ==
  InitGreedy /\ [][NextGreedy]_vars /\ LoopGoesOn /\ WF_vars(BreakLinesReturn)

\* a run that is no space is left from run k on
TextLeft(k) == \E j \in k..(Len(runs) - 1) : ~At(runs, j).space

\* C5: every iteration of the outer loop of breakLines moves runstart
\* forward, not past the number of runs, and commits at least one break
\* group when a run that is no space is left, even in a column narrower than
\* every run; so breakLines comes to its end
C5_Progress ==
  /\ [][(pc = "greedy" /\ runstart < Len(runs)) =>
          /\ pc' = "greedy"
          /\ runstart' > runstart
          /\ runstart' <= Len(runs)
          /\ Len(lines') = Len(lines) + 1
          /\ (TextLeft(runstart) => lines'[Len(lines')].groups >= 1)]_vars
  /\ <>(pc = "done")

\* breakLines has returned after a line of a single break group that
\* overruns its column was followed by another line
C5_Witness ==
  /\ pc = "done"
  /\ \E n \in 1..(Len(lines) - 1) :
       /\ lines[n].groups = 1
       /\ lines[n].left + lines[n].curWidth > lines[n].right

\* C6: a line of the greedy breaker made of more than one break group lies
\* within the column at the line's final height:
\* left(ypos, ypos+ascend-descend) + curWidth <= right(ypos, ypos+ascend-descend)
C6_Fits ==
  \A n \in 1..Len(lines) :
    (lines[n].breaker = "breakLines" /\ lines[n].groups > 1) =>
      ShapeLeft(shape, lines[n].top,
                lines[n].top + lines[n].ascend - lines[n].descend)
        + lines[n].curWidth
      <= ShapeRight(shape, lines[n].top,
                    lines[n].top + lines[n].ascend - lines[n].descend)

\* a line of two break groups whose second group made it taller, so that it
\* reaches into the narrow part of the column, where it still fits
C6_Witness ==
  \E n \in 1..Len(lines) :
    /\ lines[n].groups = 2
    /\ lines[n].top < shape.ystep
    /\ lines[n].top + lines[n].ascend - lines[n].descend > shape.ystep
    /\ lines[n].line[1].dx = 20
    /\ lines[n].curWidth = shape.r1 - shape.l1
    /\ shape.r1 < shape.r0


----------------------------------------------------------------------------
(* The optimizing breaker in plain and stepped columns *)

\* bound: most runs of a paragraph of the optimizing specification
MaxOptimizeRuns == 6

\* a column that is 50 wide down to height 60 and 80 wide below
Widening == [l0 |-> 0, r0 |-> 50, ystep |-> 60, l1 |-> 0, r1 |-> 80]

InitOptimize ==
  \E rs \in Paragraphs({Word, TallWord}, {Word, TallWord, Blank, SoftHyphen},
                       MaxOptimizeRuns) :
    \E sh \in {Column(0, 50), Stepped, Widening} :
      \E p \in Props({"ALG_LEFT"}, {0}, {TRUE}) :
        Entry(rs, sh, p)

SpecOptimize == InitOptimize /\ [][NextOptimize]_vars

\* the break positions of the runs rs before the end: k runs lie before
\* position k
InnerBreaks(rs) == {k \in 1..(Len(rs) - 1) : IsBreak(rs[k].linebreak)}

\* the total demerits of the partition of rs at the positions S from
\* position from on, where the line before left the lineinfo prev: IntMax
\* if a line does not fit its column or its demerits are not finite
RECURSIVE PartitionDemerits(_, _, _, _)
PartitionDemerits(rs, S, from, prev) ==
  IF from = Len(rs) THEN prev.demerits
  ELSE
    With(CHOOSE k \in (S \cup {Len(rs)}) :
           k > from /\ \A j \in (S \cup {Len(rs)}) : j > from => k <= j,
         LAMBDA to :
    With(Candidate(rs, [k \in 1..(from + 1) |-> prev], from + 1, to, prop,
                   shape, "notshy"), LAMBDA c :
      IF c.toolong \/ ~c.finite THEN IntMax
      ELSE PartitionDemerits(rs, S, to, [c.info EXCEPT !.demerits = c.demerits])))

\* the break positions breakLinesOptimize chose for the sub-paragraph para
Chosen(para) == {para.breaks[k] : k \in 1..Len(para.breaks)} \ {0, Len(para.sub)}

\* C7: the break positions breakLinesOptimize chooses for a sub-paragraph
\* have the least total demerits among all partitions of the sub-paragraph
\* at its break positions in which every line fits its column
C7_Optimal ==
  \A n \in 1..Len(lines) :
    lines[n].breaker = "breakLinesOptimize" =>
      \A S \in SUBSET InnerBreaks(lines[n].para.sub) :
        PartitionDemerits(lines[n].para.sub, Chosen(lines[n].para), 0,
                          lines[n].para.first)
          <= PartitionDemerits(lines[n].para.sub, S, 0, lines[n].para.first)


----------------------------------------------------------------------------
(* Links, underlines and shadows, under both breakers *)

\* bound: most runs of a paragraph with links and shadows
MaxDecorRuns == 4

\* a word of the link urlA, underlined, with two shadows
LinkWord == Piece("word", 20, 20, -10, 1, TRUE, 2)

\* a space of the link urlA, underlined, with two shadows
LinkBlank == Piece("space", 10, 20, -10, 1, TRUE, 2)

\* a word of the link urlB with one shadow
OtherLink == Piece("word", 20, 20, -10, 2, FALSE, 1)

\* a word of three glyphs of the links urlA, urlB and urlA, with one shadow
Mixed == Piece("mixed", 10, 20, -10, 1, FALSE, 1)

InitDecor ==
  \E rs \in Paragraphs({Word, LinkWord, Mixed},
                       {Word, Blank, LinkWord, LinkBlank, OtherLink, Mixed},
                       MaxDecorRuns) :
    \E p \in Props({"ALG_LEFT", "ALG_JUSTIFY_LEFT"}, {0}, BOOLEAN) :
      Entry(rs, Column(0, 50), p)

SpecDecor == InitDecor /\ [][NextPara]_vars

URLs == {PropLinks[k] : k \in 1..Len(PropLinks)}

\* the rectangles of the links of URL u in the link list ls, in order
RECURSIVE AreasOf(_, _)
AreasOf(ls, u) ==
  IF ls = <<>> THEN <<>>
  ELSE (IF Head(ls).url = u THEN Head(ls).areas ELSE <<>>) \o AreasOf(Tail(ls), u)

\* the lines on which a run with a link of URL u was placed
LinkLines(u) ==
  {n \in 1..Len(lines) :
     \E k \in 1..Len(lines[n].visits) : AreasOf(lines[n].visits[k].links, u) # <<>>}

\* the number of link rectangles of URL u in the runs placed on the line rec
PlacedRects(rec, u) ==
  SumSeq([k \in 1..Len(rec.visits) |-> Len(AreasOf(rec.visits[k].links, u))])

\* the entries of the link list tl with URL u
EntriesOf(tl, u) == {k \in 1..Len(tl) : tl[k].url = u}

\* C8 as stated: a link that spans N lines has exactly one entry in the
\* layout, and the entry holds exactly N rectangles, one per line
C8_OnePerLine ==
  \A u \in URLs :
    LinkLines(u) # {} =>
      /\ Cardinality(EntriesOf(l.links, u)) = 1
      /\ Len(AreasOf(l.links, u)) = Cardinality(LinkLines(u))

\* C8, amended: a link that spans N lines has exactly one entry in the
\* layout, and the entry holds one rectangle for every link rectangle of
\* that URL in the runs placed on the lines, so at least N rectangles and
\* more when the link covers several runs of a line
C8_OnePerRun ==
  \A u \in URLs :
    LinkLines(u) # {} =>
      /\ Cardinality(EntriesOf(l.links, u)) = 1
      /\ Len(AreasOf(l.links, u)) =
           SumSeq([n \in 1..Len(lines) |-> PlacedRects(lines[n], u)])
      /\ Len(AreasOf(l.links, u)) >= Cardinality(LinkLines(u))

\* a link was laid out on two lines, with several of its runs on one of
\* them, and its entry holds more than two rectangles
C8_Witness ==
  /\ pc = "done"
  /\ \E u \in URLs :
       /\ Cardinality(LinkLines(u)) = 2
       /\ \E n \in LinkLines(u) :
            Cardinality({k \in 1..Len(lines[n].visits) :
                           lines[n].visits[k].links # <<>>}) >= 2
       /\ Len(AreasOf(l.links, u)) > 2


\* no two entries of the link list tl have the same URL
NoTwoEntries(tl) == \A a, b \in 1..Len(tl) : tl[a].url = tl[b].url => a = b

\* the rectangles of URL u of the runs placed on the line rec from visit k
\* on, each moved by the offset of its run and the baseline of the line
RECURSIVE Merged(_, _, _)
Merged(rec, k, u) ==
  IF k > Len(rec.visits) THEN <<>>
  ELSE [j \in 1..Len(AreasOf(rec.visits[k].links, u)) |->
          [x |-> AreasOf(rec.visits[k].links, u)[j].x + rec.visits[k].dx,
           y |-> AreasOf(rec.visits[k].links, u)[j].y + rec.top + rec.ascend,
           w |-> AreasOf(rec.visits[k].links, u)[j].w,
           h |-> AreasOf(rec.visits[k].links, u)[j].h]]
       \o Merged(rec, k + 1, u)

\* C9: the link list of the layout never holds two entries with the same
\* URL; a line appends the rectangles of its runs, moved by the offset of
\* the run and the baseline of the line, to the entry of their URL, makes
\* exactly one new entry for a URL the list did not hold, and leaves the
\* entries that were there in their places and the rectangles of all other
\* entries as they were
C9_UrlKeyed ==
  /\ NoTwoEntries(l.links)
  /\ \A n \in 1..Len(lines) :
       /\ NoTwoEntries(lines[n].linksAfter)
       /\ Len(lines[n].linksAfter) >= Len(lines[n].linksBefore)
       /\ \A k \in 1..Len(lines[n].linksBefore) :
            lines[n].linksAfter[k].url = lines[n].linksBefore[k].url
       /\ \A k \in (Len(lines[n].linksBefore) + 1)..Len(lines[n].linksAfter) :
            Merged(lines[n], 1, lines[n].linksAfter[k].url) # <<>>
       /\ \A u \in URLs :
            /\ AreasOf(lines[n].linksAfter, u)
                 = AreasOf(lines[n].linksBefore, u) \o Merged(lines[n], 1, u)
            /\ Merged(lines[n], 1, u) # <<>> =>
                 Cardinality(EntriesOf(lines[n].linksAfter, u)) = 1

\* a line made the entries of two new URLs, the second when the first was
\* there, and a later line added rectangles to one of the entries and left
\* the other alone
C9_Witness ==
  /\ pc = "done"
  /\ \E n \in 1..Len(lines) :
       Len(lines[n].linksAfter) = Len(lines[n].linksBefore) + 2
  /\ \E n \in 1..Len(lines) : \E u, v \in URLs :
       /\ EntriesOf(lines[n].linksBefore, u) # {}
       /\ Merged(lines[n], 1, u) # <<>>
       /\ EntriesOf(lines[n].linksBefore, v) # {}
       /\ Merged(lines[n], 1, v) = <<>>

\* the layers of the commands the line rec appended to the output, in the
\* order of the output
Layers(rec) == [k \in 1..Len(rec.out) |-> rec.out[k].c.layer]

----------------------------------------------------------------------------
(* The order of the output of a line *)

\* the place of run ri in the visual order of the line rec
PlaceOf(rec, ri) == CHOOSE k \in 1..Len(rec.runorder) : rec.runorder[k] = ri

\* C11: within each layer of a line the commands are appended to the layout
\* in visual order: a command of a run that is placed further left comes
\* before a command of a run that is placed further right
C11_VisualOutput ==
  \A n \in 1..Len(lines) :
    \A a, b \in 1..Len(lines[n].out) :
      (/\ a < b
       /\ lines[n].out[a].c.layer = lines[n].out[b].c.layer
       /\ lines[n].out[a].ri # lines[n].out[b].ri)
      => PlaceOf(lines[n], lines[n].out[a].ri) < PlaceOf(lines[n], lines[n].out[b].ri)


----------------------------------------------------------------------------
(* getLinebreaks *)

\* bound: longest view of the line-break and hyphenation specifications
MaxViewLen == 4

\* the languages of the attributes; "" is the empty language
Langs == {"", "en", "de"}

LinebreakClasses == {LINEBREAK_MUSTBREAK, LINEBREAK_ALLOWBREAK, LINEBREAK_NOBREAK}

\* the inner loop of getLinebreaks: the first position from runpos on that
\* is the end of the view or has another language than position rstart
RECURSIVE SegmentEnd(_, _)
SegmentEnd(rstart, runpos) ==
  IF runpos < Len(txt32) /\ At(attr, rstart).lang = At(attr, runpos).lang
    THEN SegmentEnd(rstart, runpos + 1)
    ELSE runpos

\* mutant of WindowLength: the character behind the segment is never
\* included
WindowLength_segment(rstart, runpos) == runpos - rstart

\* mutant of WindowLength: the character behind the segment is always
\* included
WindowLength_always(rstart, runpos) == runpos - rstart + 1

\* the length handed to set_linebreaks_utf32: the segment and, when the view
\* goes on, the character behind it
WindowLength(rstart, runpos) ==
  runpos - rstart + (IF runpos < Len(txt32) THEN 1 ELSE 0)

\* what set_linebreaks_utf32 may write for a window of n characters: any
\* class at each position and a forced break at the last
WindowBreaks(n) == {c \in [1..n -> LinebreakClasses] : c[n] = LINEBREAK_MUSTBREAK}

\* the view getLinebreaks is called with: linebreaks has been resized (its
\* entries are 0)
InitLinebreaks ==
  /\ pc = "linebreaks"
  /\ \E n \in 1..MaxViewLen :
       /\ txt32 = [k \in 1..n |-> LETTER]
       /\ idx = [k \in 1..n |-> k - 1]
       /\ attr \in [1..n -> [has : {TRUE}, lang : Langs]]
       /\ linebreaks = [k \in 1..n |-> 0]
       /\ written = [k \in 1..n |-> 0]
  /\ t = txt32
  /\ vi = Len(t)
  /\ hyphens = <<>>
  /\ sectionstart = 0
  /\ pieces = <<>>
  /\ hb = NoHandles
  /\ ParaIdle

\* one iteration of the loop of getLinebreaks: the segment of one language
\* from runstart on is analysed
LinebreaksSegment ==
  /\ pc = "linebreaks"
  /\ runstart < Len(txt32)
  /\ \E c \in WindowBreaks(WindowLength(runstart, SegmentEnd(runstart, runstart + 1))) :
       /\ linebreaks' = [k \in 1..Len(linebreaks) |->
                           IF runstart < k /\ k <= runstart + Len(c)
                             THEN c[k - runstart] ELSE linebreaks[k]]
       /\ written' = [k \in 1..Len(written) |->
                        IF runstart < k /\ k <= runstart + Len(c)
                          THEN runstart + Len(c) ELSE written[k]]
  /\ runstart' = SegmentEnd(runstart, runstart + 1)
  /\ UNCHANGED <<pc, t, vi, txt32, idx, attr, hyphens, sectionstart, pieces, hb>>
  /\ UNCHANGED <<prop, shape, ystart, runs, l, ypos, firstline, li, i, erased, oob, lines>>

\* the loop of getLinebreaks ends
LinebreaksReturn ==
  /\ pc = "linebreaks"
  /\ ~(runstart < Len(txt32))
  /\ pc' = "linebreaksdone"
  /\ UNCHANGED viewVars
  /\ UNCHANGED paraVars

NextLinebreaks == LinebreaksSegment \/ LinebreaksReturn

SpecLinebreaks == InitLinebreaks /\ [][NextLinebreaks]_vars

\* C12: when getLinebreaks returns, the line-break class of the last
\* position of the view is MUSTBREAK, however the view is cut into segments
\* of one language
C12_LastMustBreak ==
  pc = "linebreaksdone" =>
    /\ Len(linebreaks) = Len(txt32)
    /\ linebreaks[Len(linebreaks)] = LINEBREAK_MUSTBREAK

\* getLinebreaks has returned for a view of three segments, the last of one
\* character, where the forced breaks written at the ends of the windows of
\* the first two segments were overwritten
C12_Witness ==
  /\ pc = "linebreaksdone"
  /\ Len(txt32) = 4
  /\ At(attr, 0).lang = At(attr, 1).lang
  /\ At(attr, 1).lang # At(attr, 2).lang
  /\ At(attr, 2).lang # At(attr, 3).lang
  /\ At(linebreaks, 2) = LINEBREAK_NOBREAK
  /\ At(linebreaks, 3) = LINEBREAK_MUSTBREAK


----------------------------------------------------------------------------
(* getHyphens *)

\* bound: longest view of the hyphenation specification
MaxHyphenLen == 4

\* the terminating character that c_str() holds behind the text
NUL == 0

\* the character at view position k, NUL behind the last position
CharAt(k) == IF k < Len(txt32) THEN At(txt32, k) ELSE NUL

\* the end of the language section: positions are taken while they have an
\* attribute of the language curLang
RECURSIVE SectionEnd(_, _)
SectionEnd(k, curLang) ==
  IF k < Len(txt32) /\ At(attr, k).has /\ At(attr, k).lang = curLang
    THEN SectionEnd(k + 1, curLang)
    ELSE k

\* getHyphenDict: there are dictionaries for the languages that are not empty
HasDict(lang) == lang # ""

\* breaks[k] after set_wordbreaks_utf32 on the n characters from sstart on
\* and the push_back: a word ends behind character k at the end of the
\* window, before and behind a space and before the end of the text; letters
\* and soft hyphens stay together
WordBreakAfter(sstart, n, k) ==
  \/ k >= n - 1
  \/ CharAt(sstart + k) \in {SPACE, NUL}
  \/ CharAt(sstart + k + 1) \in {SPACE, NUL}

\* view.txt().find_first_of(U'­', from): the first position from from
\* on that holds a soft hyphen, npos if there is none
FirstShy(from) ==
  IF \E k \in from..(Len(txt32) - 1) : At(txt32, k) = SHY
    THEN CHOOSE k \in from..(Len(txt32) - 1) :
           /\ At(txt32, k) = SHY
           /\ \A m \in from..(k - 1) : At(txt32, m) # SHY
    ELSE IntMax

\* the words of the section: the pairs <<wordstart, j>> of the loop over j,
\* both counted from the start of the section
Words(sstart, n) ==
  {w \in (0..n) \X (1..n) :
     /\ w[1] < w[2]
     /\ WordBreakAfter(sstart, n, w[2] - 1)
     /\ (w[1] = 0 \/ WordBreakAfter(sstart, n, w[1] - 1))
     /\ \A k \in w[1]..(w[2] - 2) : ~WordBreakAfter(sstart, n, k)}

\* the positions sethyp may be called with for the word w: the hyphenator
\* is given txt.substr(wordstart, j-wordstart) and may report a hyphen
\* behind each of its letters but the last
WordMarks(sstart, w) ==
  IF FirstShy(w[1]) >= w[2]
    THEN {sstart + w[1] + lp + 1 :
            lp \in 0..(Min(w[2] - w[1], Len(txt32) - w[1]) - 2)}
    ELSE {}

\* hyphens after sethyp was called for the positions M
SetHyp(M) ==
  IF M = {} THEN hyphens
  ELSE [k \in 1..Len(idx) |->
          (k <= Len(hyphens) /\ hyphens[k]) \/ (k - 1) \in M]

\* the view getHyphens is called with
InitHyphens ==
  /\ pc = "hyphens"
  /\ \E n \in 1..MaxHyphenLen :
       /\ txt32 \in [1..n -> {LETTER, SPACE, SHY}]
       /\ idx = [k \in 1..n |-> k - 1]
       /\ attr \in [1..n -> {a \in [has : BOOLEAN, lang : Langs] :
                               ~a.has => a.lang = ""}]
       /\ linebreaks = [k \in 1..n |-> 0]
  /\ t = txt32
  /\ vi = Len(t)
  /\ hyphens = <<>>
  /\ sectionstart = 0
  /\ pieces = <<>>
  /\ hb = NoHandles
  /\ written = <<>>
  /\ ParaIdle

\* one iteration of the loop of getHyphens: a language section is
\* hyphenated, or a position without a language is passed over
HyphensSection ==
  /\ pc = "hyphens"
  /\ sectionstart < Len(txt32)
  /\ IF At(attr, sectionstart).has /\ At(attr, sectionstart).lang # ""
       THEN \E e \in {SectionEnd(sectionstart + 1, At(attr, 0).lang)} :
              /\ sectionstart' = e
              /\ IF HasDict(At(attr, 0).lang)
                   THEN \E M \in SUBSET UNION {WordMarks(sectionstart, w) :
                                      w \in Words(sectionstart, e - sectionstart + 1)} :
                          /\ hyphens' = SetHyp(M)
                          /\ oob' = (oob \/ \E m \in M : m >= Len(idx))
                   ELSE UNCHANGED <<hyphens, oob>>
       ELSE /\ sectionstart' = sectionstart + 1
            /\ UNCHANGED <<hyphens, oob>>
  /\ UNCHANGED <<pc, t, vi, txt32, idx, linebreaks, attr, pieces, hb, written>>
  /\ UNCHANGED <<prop, shape, ystart, runs, l, runstart, ypos, firstline, li, i, erased, lines>>

\* the loop of getHyphens ends
HyphensReturn ==
  /\ pc = "hyphens"
  /\ ~(sectionstart < Len(txt32))
  /\ pc' = "hyphensdone"
  /\ UNCHANGED viewVars
  /\ UNCHANGED paraVars

NextHyphens == HyphensSection \/ HyphensReturn

SpecHyphens == InitHyphens /\ [][NextHyphens]_vars

\* view.hyp(k)
hyp(k) == k < Len(hyphens) /\ At(hyphens, k)

\* the positions k-1 and k lie in one word that holds a soft hyphen: there
\* is a stretch of the text without a space around them with a U+00AD in it
InShyWord(k) ==
  \E a \in 0..(k - 1) : \E b \in k..(Len(txt32) - 1) :
    /\ \A m \in a..b : At(txt32, m) # SPACE
    /\ \E m \in a..b : At(txt32, m) = SHY

\* C13: getHyphens marks no hyphenation point inside a word that holds a
\* soft hyphen the user inserted
C13_NoHyphenInShyWord ==
  \A k \in 1..(Len(txt32) - 1) : hyp(k) => ~InShyWord(k)


----------------------------------------------------------------------------
(* createTextRuns and the shaper *)

\* bound: most runs of a paragraph of the shaping specification
MaxShapeRuns == 3

\* what the shaper returns for the text of a piece: its glyphs ("ok"), no
\* glyph at all ("none"), or its glyphs with a vertical advance in the last
\* of them ("vertical")
ShaperResults == {"ok", "none", "vertical"}

\* the glyphs of the piece e.piece as the shaper returns them
ShapedGlyphs(e) ==
  IF e.shaper = "none" THEN <<>>
  ELSE IF e.shaper = "ok" THEN PieceGlyphs(e.piece)
  ELSE [k \in 1..Len(PieceGlyphs(e.piece)) |->
          IF k = Len(PieceGlyphs(e.piece))
            THEN [PieceGlyphs(e.piece)[k] EXCEPT !.yadv = 1]
            ELSE PieceGlyphs(e.piece)[k]]

\* mutant of createRunThrows: only the first glyph is looked at
createRunThrows_firstGlyph(glyphs) == glyphs # <<>> /\ glyphs[1].yadv # 0

\* createRun throws a LayoutException_c when a glyph has a vertical advance
createRunThrows(glyphs) == \E k \in 1..Len(glyphs) : glyphs[k].yadv # 0

\* the runs createTextRuns makes of the shaped pieces ps, one run a piece
ShapedRuns(ps) ==
  [k \in 1..Len(ps) |->
     createRun([glyphs |-> ShapedGlyphs(ps[k]),
                emb |-> 0,
                lnb |-> LinebreakAfter([j \in 1..Len(ps) |-> ps[j].piece], k),
                space |-> ps[k].piece.kind \in {"space", "newline"},
                shy |-> ps[k].piece.kind = "shy",
                asc |-> ps[k].piece.asc, desc |-> ps[k].piece.desc,
                shadows |-> ps[k].piece.shadows])]

\* layoutParagraph before createTextRuns: the view is analysed
InitShape ==
  /\ pc = "runs"
  /\ pieces \in {<<f>> \o r :
                   f \in [piece : {Word, Mixed}, shaper : ShaperResults],
                   r \in SeqsUpTo([piece : {Word, Blank, Mixed}, shaper : ShaperResults],
                                  MaxShapeRuns - 1)}
  /\ prop \in Props({"ALG_LEFT"}, {0}, BOOLEAN)
  /\ shape = Column(0, 50)
  /\ t = <<>>
  /\ vi = 0
  /\ txt32 = <<>>
  /\ idx = <<>>
  /\ linebreaks = <<>>
  /\ attr = <<>>
  /\ hyphens = <<>>
  /\ sectionstart = 0
  /\ hb = NoHandles
  /\ written = <<>>
  /\ ystart = 0
  /\ runs = <<>>
  /\ l = [cmds |-> <<>>, links |-> <<>>, firstBaseline |-> 0, height |-> 0]
  /\ runstart = 0
  /\ ypos = 0
  /\ firstline = TRUE
  /\ li = <<>>
  /\ i = 1
  /\ erased = 0
  /\ oob = FALSE
  /\ lines = <<>>

\* the number of shaper fonts createTextRuns creates: the pieces have one
\* font
FontsOf(ps) == 1

\* the pieces createRun is called for: all, or those up to the first for
\* which it throws
RunsTried(ps) ==
  IF \E k \in 1..Len(ps) : createRunThrows(ShapedGlyphs(ps[k]))
    THEN CHOOSE k \in 1..Len(ps) :
           /\ createRunThrows(ShapedGlyphs(ps[k]))
           /\ \A j \in 1..(k - 1) : ~createRunThrows(ShapedGlyphs(ps[j]))
    ELSE Len(ps)

\* createTextRuns and the call of the breaker: the shaper fonts are
\* created, every piece is shaped in a new shaper buffer and made a run,
\* and the fonts are destroyed; createRun destroys its buffer before it
\* returns; an exception of createRun ends createTextRuns and
\* layoutParagraph at once
CreateTextRuns ==
  /\ pc = "runs"
  /\ IF \E k \in 1..Len(pieces) : createRunThrows(ShapedGlyphs(pieces[k]))
       THEN /\ pc' = "exception"
            /\ hb' = [bufCreated |-> hb.bufCreated + RunsTried(pieces),
                      bufDestroyed |-> hb.bufDestroyed + RunsTried(pieces) - 1,
                      fontCreated |-> hb.fontCreated + FontsOf(pieces),
                      fontDestroyed |-> hb.fontDestroyed]
            /\ UNCHANGED <<runs, li>>
       ELSE /\ pc' = (IF prop.optimizeLinebreaks THEN "opt" ELSE "greedy")
            /\ hb' = [bufCreated |-> hb.bufCreated + RunsTried(pieces),
                      bufDestroyed |-> hb.bufDestroyed + RunsTried(pieces),
                      fontCreated |-> hb.fontCreated + FontsOf(pieces),
                      fontDestroyed |-> hb.fontDestroyed + FontsOf(pieces)]
            /\ runs' = ShapedRuns(pieces)
            /\ li' = IF prop.optimizeLinebreaks
                       THEN [k \in 1..(Len(pieces) + 1) |->
                               IF k = 1 THEN [ZeroLineinfo EXCEPT !.start = TRUE]
                               ELSE ZeroLineinfo]
                       ELSE <<>>
  /\ UNCHANGED <<t, vi, txt32, idx, linebreaks, attr, hyphens, sectionstart, pieces, written>>
  /\ UNCHANGED <<prop, shape, ystart, l, runstart, ypos, firstline, i, erased, oob, lines>>

NextShape == CreateTextRuns \/ NextPara

SpecShape == InitShape /\ [][NextShape]_vars

\* the shaper returned no glyph for piece k, or a vertical advance
ShaperGave(result) == \E k \in 1..Len(pieces) : pieces[k].shaper = result

\* C14: when the shaper returns no glyph for a run whose text is not empty,
\* the layout call fails: no breaker runs and no layout is returned
C14_ShaperFailure ==
  ShaperGave("none") => pc \in {"runs", "exception"}

\* C15: when the shaper reports a vertical advance for a glyph of a run,
\* layoutParagraph fails with the exception and returns no layout: no
\* breaker runs, no run is made and no line is assembled
C15_NonLinearScript ==
  ShaperGave("vertical") =>
    /\ pc \in {"runs", "exception"}
    /\ runs = <<>>
    /\ lines = <<>>
    /\ l.cmds = <<>>

\* layoutParagraph has failed for a paragraph whose first run was shaped
\* well and whose last run has three glyphs, the last with a vertical advance
C15_Witness ==
  /\ pc = "exception"
  /\ Len(pieces) >= 2
  /\ pieces[1].shaper = "ok"
  /\ pieces[Len(pieces)].shaper = "vertical"
  /\ pieces[Len(pieces)].piece.kind = "mixed"
  /\ \A k \in 1..(Len(pieces) - 1) : pieces[k].shaper # "vertical"


----------------------------------------------------------------------------
(* Alignment, indent and forced breaks, under both breakers *)

\* bound: most runs of a paragraph of the alignment specification
MaxAlignRuns == 4

\* a newline: a space run with a forced break behind it
Newline == Piece("newline", 10, 20, -10, 0, FALSE, 0)

Alignments == {"ALG_LEFT", "ALG_RIGHT", "ALG_CENTER", "ALG_JUSTIFY_LEFT", "ALG_JUSTIFY_RIGHT"}

InitAlign ==
  \E rs \in Paragraphs({Word}, {Word, Blank, Newline}, MaxAlignRuns) :
    \E sh \in {Column(10, 60), Column(10, 25)} :
      \E p \in Props(Alignments, {0, 5}, BOOLEAN) :
        Entry(rs, sh, p)

SpecAlign == InitAlign /\ [][NextPara]_vars

\* C16: every line starts at or right of the left edge of the shape at the
\* height of the line, for every alignment and also when the line is wider
\* than its column
C16_StartsInColumn ==
  \A n \in 1..Len(lines) :
    lines[n].xpos >= ShapeLeft(shape, lines[n].top,
                               lines[n].top + lines[n].ascend - lines[n].descend)

\* the part of the width of a line that is not the advance of its runs;
\* breakLinesOptimize counts nine tenths of the advance of a space
IndentOf(rec) ==
  rec.curWidth
    - SumSeq([k \in 1..Len(rec.line) |->
                IF rec.breaker = "breakLinesOptimize" /\ rec.line[k].space
                  THEN (rec.line[k].dx * 9) \div 10
                  ELSE rec.line[k].dx])

\* C17: the indent is applied to one line of a layoutParagraph call, the
\* first one added: that line has the FIRST flag and, unless the text is
\* centred, the indent in its width; every later line has neither, also
\* behind a forced break
C17_IndentOnce ==
  \A n \in 1..Len(lines) :
    /\ HasFlag(lines[n].lineflags, LF_FIRST) <=> n = 1
    /\ IndentOf(lines[n]) = (IF n = 1 /\ prop.align # "ALG_CENTER"
                               THEN prop.indent ELSE 0)

\* C18: on return the first baseline of the layout is the baseline of the
\* first line added, ystart plus its ascend, under both breakers and also
\* when a break is forced before the end of the paragraph
C18_FirstBaseline ==
  pc = "done" /\ lines # <<>> => l.firstBaseline = ystart + lines[1].ascend

\* C19: breakLinesOptimize reads no run outside the vector and calls addLine
\* with runstart <= spos only (a call with runstart > spos throws), for run
\* lists that end with a forced break, also with empty lines and with a run
\* wider than the column
C19_InBounds ==
  prop.optimizeLinebreaks =>
    /\ ~oob
    /\ pc \notin {"crash", "exception"}
    /\ \A n \in 1..Len(lines) : lines[n].runstart <= lines[n].spos

\* run k of the text (counted from 0) is in the range of a line
Covered(k) ==
  \E n \in 1..Len(lines) : lines[n].runstart <= k /\ k < lines[n].spos

\* the runs of the text that are in no line are space runs; what
\* breakLinesOptimize has erased is read from the sub-paragraphs of its lines
LeftOutAreSpaces ==
  IF prop.optimizeLinebreaks
    THEN \A n \in 1..Len(lines) :
           \A k \in 1..Len(lines[n].para.sub) :
             Covered(lines[n].para.off + k - 1) \/ lines[n].para.sub[k].space
    ELSE \A k \in 0..(Len(runs) - 1) : Covered(k) \/ At(runs, k).space

----------------------------------------------------------------------------
(* The heights of the lines of breakLinesOptimize *)

\* paragraphs with forced breaks in a column that holds one word but not
\* two, and in one that holds two, under breakLinesOptimize
InitRestart ==
  \E rs \in Paragraphs({Word}, {Word, Blank, Newline}, MaxAlignRuns) :
    \E sh \in {Column(10, 45), Column(10, 60)} :
      \E p \in Props({"ALG_LEFT", "ALG_CENTER"}, {0, 5}, {TRUE}) :
        Entry(rs, sh, p)

SpecRestart == InitRestart /\ [][NextOptimize]_vars

\* the bottom of a line: its top plus its height
BottomOf(rec) == rec.top + rec.ascend - rec.descend

\* the bottom of the last line added, ystart when there is none
LastBottom == IF lines = <<>> THEN ystart ELSE BottomOf(lines[Len(lines)])

\* C21: breakLinesOptimize adds its lines from the top down, also across the
\* restarts behind forced breaks: each line starts where the line before
\* ends (the first at ystart), li[0].ypos at a restart is the bottom of the
\* last line, and the height returned is ystart plus the heights of all
\* lines
C21_TopDown ==
  prop.optimizeLinebreaks =>
    /\ \A n \in 1..Len(lines) :
         lines[n].top = (IF n = 1 THEN ystart ELSE BottomOf(lines[n - 1]))
    /\ pc = "opt" /\ i = 1 => At(li, 0).ypos = LastBottom
    /\ pc = "done" =>
         l.height = ystart + SumSeq([n \in 1..Len(lines) |->
                                       lines[n].ascend - lines[n].descend])

----------------------------------------------------------------------------
(* The start of a line under ALG_JUSTIFY_RIGHT *)

\* C22 as stated: under ALG_JUSTIFY_RIGHT a line starts at left + spaceLeft
\* when it has the LAST flag and at left when it has not, with or without
\* space runs
C22_LastOnly ==
  prop.align = "ALG_JUSTIFY_RIGHT" =>
    \A n \in 1..Len(lines) :
      lines[n].xpos = (IF HasFlag(lines[n].lineflags, LF_LAST)
                         THEN lines[n].left + lines[n].spaceLeft
                         ELSE lines[n].left)

\* C22: under ALG_JUSTIFY_RIGHT a line starts at left when it is justified,
\* that is not LAST and with a space run, and at left + spaceLeft when it is
\* LAST or has no space run
C22_Unjustified ==
  prop.align = "ALG_JUSTIFY_RIGHT" =>
    \A n \in 1..Len(lines) :
      lines[n].xpos = (IF HasFlag(lines[n].lineflags, LF_LAST)
                            \/ lines[n].numSpace = 0
                         THEN lines[n].left + lines[n].spaceLeft
                         ELSE lines[n].left)

\* C22: under ALG_JUSTIFY_RIGHT a line that is not LAST, has no space run
\* and is shorter than its column has been added at the right, and the
\* paragraph has been laid out
C22_Witness ==
  /\ prop.align = "ALG_JUSTIFY_RIGHT"
  /\ pc = "done"
  /\ \E n \in 1..Len(lines) :
       /\ ~HasFlag(lines[n].lineflags, LF_LAST)
       /\ lines[n].numSpace = 0
       /\ lines[n].spaceLeft > 0
       /\ lines[n].xpos = lines[n].left + lines[n].spaceLeft

----------------------------------------------------------------------------
(* createTextRuns: the view is cut into runs *)

\* bound: longest view of the run specification
MaxCutLen == 4

\* U+0021, a character of the class no line is broken before
EXCLAM == 33

CutCodepoints == {LETTER, SPACE, NEWLINE, SHY, EXCLAM}

\* the class set_linebreaks_utf32 gives position k of the text tx: a break
\* is forced at the end and behind a newline; there is none before a space,
\* a newline or an exclamation mark; one is allowed behind a space; there is
\* none before a soft hyphen; one is allowed behind a soft hyphen and an
\* exclamation mark; letters stay together
AnalysedBreak(tx, k) ==
  IF k = Len(tx) - 1 \/ At(tx, k) = NEWLINE THEN LINEBREAK_MUSTBREAK
  ELSE IF At(tx, k + 1) \in {SPACE, NEWLINE, EXCLAM} THEN LINEBREAK_NOBREAK
  ELSE IF At(tx, k) = SPACE THEN LINEBREAK_ALLOWBREAK
  ELSE IF At(tx, k + 1) = SHY THEN LINEBREAK_NOBREAK
  ELSE IF At(tx, k) \in {SHY, EXCLAM} THEN LINEBREAK_ALLOWBREAK
  ELSE LINEBREAK_NOBREAK

\* the views createTextRuns is called with: a text, the language changes at
\* most once, the classes are those of the analyser and at most one
\* position between two letters is marked for hyphenation
InitCut ==
  /\ pc = "cut"
  /\ \E n \in 1..MaxCutLen :
       /\ txt32 \in [1..n -> CutCodepoints]
       /\ idx = [k \in 1..n |-> k - 1]
       /\ \E c \in 1..n :
            attr = [k \in 1..n |->
                      [has |-> TRUE, lang |-> IF k <= c THEN "en" ELSE "de"]]
       /\ \E h \in 0..(n - 1) :
            /\ h > 0 => txt32[h] = LETTER /\ txt32[h + 1] = LETTER
            /\ hyphens = IF h = 0 THEN <<>> ELSE [k \in 1..n |-> k = h + 1]
  /\ linebreaks = [k \in 1..Len(txt32) |-> AnalysedBreak(txt32, k - 1)]
  /\ t = txt32
  /\ vi = Len(t)
  /\ sectionstart = 0
  /\ pieces = <<>>
  /\ hb = [NoHandles EXCEPT !.fontCreated = 1]
  /\ written = <<>>
  /\ ParaIdle

\* mutant of RunGoesOn: a run is not ended behind a space or a newline
RunGoesOn_overSpace(rstart, spos) ==
  /\ spos < Len(txt32)
  /\ At(attr, rstart).lang = At(attr, spos).lang
  /\ At(linebreaks, spos - 1) = LINEBREAK_NOBREAK
  /\ At(txt32, spos) # SPACE
  /\ At(txt32, spos) # NEWLINE
  /\ At(txt32, spos) # SHY
  /\ ~hyp(spos)

\* the condition of the loop that looks for the end of the run from rstart:
\* the run goes on over position spos (embedding level, font and baseline
\* shift are the same at every position and there is no inlay)
RunGoesOn(rstart, spos) ==
  /\ spos < Len(txt32)
  /\ At(attr, rstart).lang = At(attr, spos).lang
  /\ At(linebreaks, spos - 1) = LINEBREAK_NOBREAK
  /\ At(txt32, spos) # SPACE
  /\ At(txt32, spos - 1) # SPACE
  /\ At(txt32, spos) # NEWLINE
  /\ At(txt32, spos - 1) # NEWLINE
  /\ At(txt32, spos) # SHY
  /\ ~hyp(spos)

\* the position behind the run that starts at rstart
RECURSIVE RunEnd(_, _)
RunEnd(rstart, spos) ==
  IF RunGoesOn(rstart, spos) THEN RunEnd(rstart, spos + 1) ELSE spos

\* what createRun notes of the text from rstart to spos of the view
RunText(rstart, spos) ==
  [first |-> rstart, last |-> spos,
   text |-> SubSeq(txt32, rstart + 1, spos),
   space |-> At(txt32, spos - 1) = SPACE \/ At(txt32, spos - 1) = NEWLINE,
   shy |-> At(txt32, rstart) = SHY,
   made |-> FALSE]

\* the run that is made for a hyphenation mark: createRun is called with
\* the positions 0 to 1 of a view of one soft hyphen
MadeShy ==
  [first |-> 0, last |-> 1, text |-> <<SHY>>, space |-> FALSE,
   shy |-> TRUE, made |-> TRUE]

\* the assertion of createRun: a soft hyphen run has one character
RunAssertion(r) == ~r.shy \/ r.last - r.first = 1

\* one iteration of the loop of createTextRuns: the run from runstart is
\* cut off and created, and behind it the run of a hyphenation mark, each
\* in a shaper buffer that createRun creates and destroys; a build with
\* assertions stops when the assertion of createRun fails
CutRun ==
  /\ pc = "cut"
  /\ runstart < Len(txt32)
  /\ \E r \in {RunText(runstart, RunEnd(runstart, runstart + 1))} :
       \/ /\ ~RunAssertion(r)
          /\ pc' = "abort"
          /\ UNCHANGED <<pieces, runstart, hb>>
       \/ /\ pc' = pc
          /\ pieces' = pieces \o <<r>>
                         \o (IF hyp(r.last) THEN <<MadeShy>> ELSE <<>>)
          /\ runstart' = r.last
          /\ hb' = [hb EXCEPT
                      !.bufCreated = @ + (IF hyp(r.last) THEN 2 ELSE 1),
                      !.bufDestroyed = @ + (IF hyp(r.last) THEN 2 ELSE 1)]
  /\ UNCHANGED <<t, vi, txt32, idx, linebreaks, attr, hyphens, sectionstart, written>>
  /\ UNCHANGED <<prop, shape, ystart, runs, l, ypos, firstline, li, i, erased, oob, lines>>

\* the loop of createTextRuns ends and the shaper fonts are destroyed
CutReturn ==
  /\ pc = "cut"
  /\ ~(runstart < Len(txt32))
  /\ pc' = "cutdone"
  /\ hb' = [hb EXCEPT !.fontDestroyed = hb.fontCreated]
  /\ UNCHANGED <<t, vi, txt32, idx, linebreaks, attr, hyphens, sectionstart, pieces, written>>
  /\ UNCHANGED paraVars

NextCut == CutRun \/ CutReturn

SpecCut == InitCut /\ [][NextCut]_vars

\* C23: a run whose first character is a soft hyphen has one character, so
\* the assertion of createRun never fails, for every view and the classes
\* the analyser gives it
C23_ShyRunIsOne ==
  /\ pc # "abort"
  /\ \A k \in 1..Len(pieces) : RunAssertion(pieces[k])

----------------------------------------------------------------------------
(* The language sections of getHyphens *)

\* the starts of the sections from position s on when each section is as
\* long as the language of its own first position lasts
RECURSIVE OwnSectionStarts(_)
OwnSectionStarts(s) ==
  IF s >= Len(txt32) THEN {s}
  ELSE {s} \cup OwnSectionStarts(
         IF At(attr, s).has /\ At(attr, s).lang # ""
           THEN SectionEnd(s + 1, At(attr, s).lang)
           ELSE s + 1)

\* C24: every section getHyphens processes is delimited, and its dictionary
\* chosen, by the language of its first position and not by the language of
\* position 0: the loop only ever stands at the start of such a section
C24_OwnLanguage ==
  pc \in {"hyphens", "hyphensdone"} => sectionstart \in OwnSectionStarts(0)

----------------------------------------------------------------------------
(* The link rectangles of a run *)

\* bound: most glyphs of the run of the link specification
MaxLinkGlyphs == 4

\* a word of glyphs with the link ids ids (0: no link), each 10 wide
Linked(ids) == Piece("linked", 10, 20, -10, ids, FALSE, 0)

\* layoutParagraph before createTextRuns, for a paragraph of one word whose
\* characters have the link ids 0, 1 and 2 in every order
InitRunLinks ==
  /\ pc = "runs"
  /\ \E n \in 1..MaxLinkGlyphs : \E ids \in [1..n -> 0..2] :
       pieces = <<[piece |-> Linked(ids), shaper |-> "ok"]>>
  /\ prop \in Props({"ALG_LEFT"}, {0}, BOOLEAN)
  /\ shape = Column(0, 50)
  /\ t = <<>>
  /\ vi = 0
  /\ txt32 = <<>>
  /\ idx = <<>>
  /\ linebreaks = <<>>
  /\ attr = <<>>
  /\ hyphens = <<>>
  /\ sectionstart = 0
  /\ hb = NoHandles
  /\ written = <<>>
  /\ ystart = 0
  /\ runs = <<>>
  /\ l = [cmds |-> <<>>, links |-> <<>>, firstBaseline |-> 0, height |-> 0]
  /\ runstart = 0
  /\ ypos = 0
  /\ firstline = TRUE
  /\ li = <<>>
  /\ i = 1
  /\ erased = 0
  /\ oob = FALSE
  /\ lines = <<>>

SpecRunLinks == InitRunLinks /\ [][NextShape]_vars

\* the last glyph from k on of the stretch of glyphs that have the link id
\* of glyph k
RECURSIVE StretchEnd(_, _)
StretchEnd(g, k) ==
  IF k < Len(g) /\ g[k + 1].link = g[k].link THEN StretchEnd(g, k + 1) ELSE k

\* for each stretch of glyphs from k on with one link id that is not 0, in
\* order: the offset at which it starts and the sum of its advances
RECURSIVE Stretches(_, _)
Stretches(g, k) ==
  IF k > Len(g) THEN <<>>
  ELSE IF g[k].link = 0 THEN Stretches(g, k + 1)
  ELSE With(StretchEnd(g, k), LAMBDA e :
         <<[x |-> SumSeq([j \in 1..(k - 1) |-> g[j].adv]),
            w |-> SumSeq([j \in 1..(e - k + 1) |-> g[k + j - 1].adv])]>>
           \o Stretches(g, e + 1))

\* x and w of the rectangles of the link entries ls, in order
LinkExtents(ls) ==
  [k \in 1..Len(ls) |-> [x |-> ls[k].areas[1].x, w |-> ls[k].areas[1].w]]

\* C25: the links of a run hold one rectangle for each stretch of glyphs
\* with one link id that is not 0, in order, from the offset where the
\* stretch starts and as wide as its glyphs; glyphs without a link are in no
\* rectangle, also between two stretches of the same link
C25_LinkStretches ==
  pc \in {"greedy", "opt"} /\ runs # <<>> /\ lines = <<>> =>
    /\ \A k \in 1..Len(runs[1].links) : Len(runs[1].links[k].areas) = 1
    /\ LinkExtents(runs[1].links) = Stretches(PieceGlyphs(pieces[1].piece), 1)

----------------------------------------------------------------------------
(* Shaper buffers and shaper fonts *)

\* C26: when layoutParagraph is left, by its return or by the exception of
\* createRun, every shaper buffer and every shaper font that was created
\* has been destroyed
C26_HandlesReleased ==
  pc \in {"done", "exception"} =>
    /\ hb.bufCreated = hb.bufDestroyed
    /\ hb.fontCreated = hb.fontDestroyed

----------------------------------------------------------------------------
(* The windows of getLinebreaks *)

\* C27: the class getLinebreaks leaves at a position that is not the last
\* of the view was written by an analyser call whose window goes on behind
\* that position: once the loop has passed a position, the forced break an
\* earlier call wrote there at the end of its window has been overwritten,
\* however the view is cut into segments of one language
C27_WindowGoesOn ==
  pc \in {"linebreaks", "linebreaksdone"} =>
    \A k \in 1..(Len(txt32) - 1) : k <= runstart => written[k] >= k + 1

\* getLinebreaks has returned for a view of three segments: the first
\* position of the second and of the third segment was the end of the
\* window before, and the call for its own segment gave it another class
\* than the forced break
C27_Witness ==
  /\ pc = "linebreaksdone"
  /\ Len(txt32) = 4
  /\ attr[1].lang # attr[2].lang
  /\ attr[2].lang = attr[3].lang
  /\ attr[3].lang # attr[4].lang
  /\ linebreaks[2] = LINEBREAK_NOBREAK
  /\ written[2] = 4
  /\ written[1] = 2
  /\ written[4] = 4

----------------------------------------------------------------------------
(* The runs of createTextRuns cover the view *)

\* the runs that were created from the text of the view
ViewRuns == SelectSeq(pieces, LAMBDA r : ~r.made)

\* the position behind the last of the runs rs
CoveredTo(rs) == IF rs = <<>> THEN 0 ELSE rs[Len(rs)].last

\* C28: the runs createTextRuns creates from the text of the view, the
\* runs made for hyphenation marks left out, follow one another from
\* position 0 to the end of the view without a gap and without overlap;
\* every space and every newline is a run of one character with the space
\* flag, and no run without the space flag contains a space or a newline
C28_RunsCover ==
  /\ \A k \in 1..Len(ViewRuns) :
       /\ ViewRuns[k].first = CoveredTo(SubSeq(ViewRuns, 1, k - 1))
       /\ ViewRuns[k].first < ViewRuns[k].last
       /\ ViewRuns[k].last <= Len(txt32)
       /\ ViewRuns[k].text = SubSeq(txt32, ViewRuns[k].first + 1, ViewRuns[k].last)
       /\ \A p \in ViewRuns[k].first..(ViewRuns[k].last - 1) :
            At(txt32, p) \in {SPACE, NEWLINE} =>
              /\ ViewRuns[k].last - ViewRuns[k].first = 1
              /\ ViewRuns[k].space
       /\ ~ViewRuns[k].space =>
            \A n \in 1..Len(ViewRuns[k].text) :
              ViewRuns[k].text[n] \notin {SPACE, NEWLINE}
  /\ pc = "cut" => CoveredTo(ViewRuns) = runstart
  /\ pc = "cutdone" => CoveredTo(ViewRuns) = Len(txt32)

\* createTextRuns has returned for a view of four codepoints with a space
\* run, a newline run, a run of one letter and a run that was made for a
\* hyphenation mark
C28_Witness ==
  /\ pc = "cutdone"
  /\ Len(txt32) = 4
  /\ Len(pieces) = 5
  /\ \E k \in 1..Len(pieces) : pieces[k].made
  /\ \E k \in 1..Len(ViewRuns) :
       ViewRuns[k].space /\ ViewRuns[k].text = <<SPACE>>
  /\ \E k \in 1..Len(ViewRuns) :
       ViewRuns[k].space /\ ViewRuns[k].text = <<NEWLINE>>
  /\ \E k \in 1..Len(ViewRuns) :
       ~ViewRuns[k].space /\ ViewRuns[k].text = <<LETTER>>


====
